---------------------------- MODULE Spec2Model ----------------------------
(***************************************************************************)
(* openclaw-porter: manifest validation and the import pipeline.           *)
(*                                                                         *)
(* Text that the code inspects character by character (manifest.name,      *)
(* manifest.version, path-valued fields) is a sequence of one-character    *)
(* strings.  Text that the code only passes around (file names inside a    *)
(* package, environment variable names, file contents) is a plain string.  *)
(* A JavaScript object is a function whose DOMAIN holds exactly the        *)
(* properties that are defined; an undefined property is outside DOMAIN.   *)
(***************************************************************************)
EXTENDS Integers, Sequences, FiniteSets, TLC

VARIABLES
    vm,       \* validateManifest: the manifest handed to the validator
    vres,     \* validateManifest: the ValidationResult returned, or NoResult
    fs,       \* the filesystem under the target root: staging dirs and agents
    pre,      \* the filesystem as it was when the last importAgent call began
    call,     \* the last importAgent call: source, options, environment, oracle
    result,   \* what the last importAgent call returned (or that it threw)
    ncalls,   \* number of importAgent calls made so far
    ws,       \* the workspace being exported: its files and the archives written
    scan,     \* the ScanResult of the last scanWorkspace call
    leaks,    \* the leak records of the last checkForSecrets call
    xcall,    \* the options of the last exportAgent call
    xres,     \* the ExportResult of the last exportAgent call
    procs     \* concurrent imports: each importAgent invocation's position and locals

vars == <<vm, vres, fs, pre, call, result, ncalls, ws, scan, leaks, xcall, xres,
          procs>>

-----------------------------------------------------------------------------
(* Strings as character sequences *)

Has(obj, f) == f \in DOMAIN obj

Digits == {"0", "1", "2", "3", "4", "5", "6", "7", "8", "9"}

LowerLetters ==
    {"a", "b", "c", "d", "e", "f", "g", "h", "i", "j", "k", "l", "m",
     "n", "o", "p", "q", "r", "s", "t", "u", "v", "w", "x", "y", "z"}

\* the character class [a-z0-9-]
NameChars == LowerLetters \cup Digits \cup {"-"}

\* /^[a-z0-9-]+$/.test(s)
NameRegexTest(s) == Len(s) >= 1 /\ \A i \in 1..Len(s) : s[i] \in NameChars

\* index just past the maximal run of digits of s that starts at i
RECURSIVE DigitsEnd(_, _)
DigitsEnd(s, i) ==
    IF i <= Len(s) /\ s[i] \in Digits THEN DigitsEnd(s, i + 1) ELSE i

\* /^\d+\.\d+\.\d+/.test(s)
SemverRegexTest(s) ==
    LET a == DigitsEnd(s, 1)
        b == DigitsEnd(s, a + 1)
        c == DigitsEnd(s, b + 1)
    IN  /\ a > 1
        /\ a <= Len(s) /\ s[a] = "."
        /\ b > a + 1
        /\ b <= Len(s) /\ s[b] = "."
        /\ c > b + 1

\* p.startsWith('/')
StartsWithSlash(p) == Len(p) >= 1 /\ p[1] = "/"

\* p.includes('..')
IncludesDotDot(p) == \E i \in 1..(Len(p) - 1) : p[i] = "." /\ p[i + 1] = "."

\* a message: fixed text plus the interpolated value (<<>> when there is none)
Msg(text, arg) == [text |-> text, arg |-> arg]

-----------------------------------------------------------------------------
(* validateManifest *)

\* manifest.<f> is truthy (a defined, non-empty string or list)
Truthy(m, f) == Has(m, f) /\ m[f] # <<>>

\* manifest.<f>?.<g> is truthy
Truthy2(m, f, g) == Has(m, f) /\ Has(m[f], g) /\ m[f][g] # <<>>

ContextKeys == <<"soul", "identity", "tools", "agents", "heartbeat">>

RECURSIVE ContextPaths(_, _)
ContextPaths(m, i) ==
    IF i > Len(ContextKeys) THEN <<>>
    ELSE (IF Truthy2(m, "context", ContextKeys[i])
             THEN <<m.context[ContextKeys[i]]>> ELSE <<>>)
         \o ContextPaths(m, i + 1)

NonEmptyStr(p) == p # <<>>

AssetPaths(m) == IF Truthy(m, "assets") THEN SelectSeq(m.assets, NonEmptyStr) ELSE <<>>

BundledPaths(m) ==
    IF Has(m, "skills") /\ Has(m.skills, "bundled")
    THEN SelectSeq([i \in 1..Len(m.skills.bundled) |-> m.skills.bundled[i].path],
                   NonEmptyStr)
    ELSE <<>>

\* allPaths of validateManifest, after .filter(Boolean)
AllPaths(m) == ContextPaths(m, 1) \o AssetPaths(m) \o BundledPaths(m)

NameErrors(m) ==
    IF ~Truthy(m, "name") THEN <<Msg("Missing required field: name", <<>>)>>
    ELSE IF ~NameRegexTest(m.name)
         THEN <<Msg("Name must be lowercase alphanumeric with hyphens only", <<>>)>>
         ELSE <<>>

VersionErrors(m) ==
    IF ~Truthy(m, "version") THEN <<Msg("Missing required field: version", <<>>)>>
    ELSE <<>>

VersionWarnings(m) ==
    IF Truthy(m, "version") /\ ~SemverRegexTest(m.version)
    THEN <<Msg("Version should follow semver (e.g., 1.0.0)", <<>>)>>
    ELSE <<>>

DescriptionErrors(m) ==
    IF ~Truthy(m, "description")
    THEN <<Msg("Missing required field: description", <<>>)>> ELSE <<>>

EngineErrors(m) ==
    IF ~Truthy2(m, "engine", "clawdbot")
    THEN <<Msg("Missing required field: engine.clawdbot", <<>>)>> ELSE <<>>

SoulErrors(m) ==
    IF ~Truthy2(m, "context", "soul")
    THEN <<Msg("Missing required field: context.soul (SOUL.md is required)", <<>>)>>
    ELSE <<>>

RECURSIVE PathErrors(_, _)
PathErrors(ps, i) ==
    IF i > Len(ps) THEN <<>>
    ELSE (IF StartsWithSlash(ps[i]) \/ IncludesDotDot(ps[i])
             THEN <<Msg("Invalid path (must be relative, no ..): ", ps[i])>>
             ELSE <<>>)
         \o PathErrors(ps, i + 1)

EnvWarnings(m) ==
    IF ~Truthy2(m, "env", "required") /\ ~Truthy2(m, "env", "optional")
    THEN <<Msg("No environment variables declared - agent may not work without API keys", <<>>)>>
    ELSE <<>>

\* the mutation: stop collecting after the first failed required-field check
RECURSIVE FirstNonEmpty(_, _)
FirstNonEmpty(groups, i) ==
    IF i > Len(groups) THEN <<>>
    ELSE IF groups[i] # <<>> THEN groups[i]
    ELSE FirstNonEmpty(groups, i + 1)

RequiredFieldErrorsShortCircuit(m) ==
    FirstNonEmpty(<<NameErrors(m), VersionErrors(m), DescriptionErrors(m),
                    EngineErrors(m), SoulErrors(m)>>, 1)

RequiredFieldErrors(m) ==
    NameErrors(m) \o VersionErrors(m) \o DescriptionErrors(m)
        \o EngineErrors(m) \o SoulErrors(m)

\* the mutation: warnings are pushed to errors
validateManifestWarningsAsErrors(m) ==
    LET warnings == VersionWarnings(m) \o EnvWarnings(m)
        errors   == RequiredFieldErrors(m) \o PathErrors(AllPaths(m), 1) \o warnings
    IN  [valid |-> Len(errors) = 0, errors |-> errors, warnings |-> warnings]

validateManifest(m) ==
    LET errors   == RequiredFieldErrors(m) \o PathErrors(AllPaths(m), 1)
        warnings == VersionWarnings(m) \o EnvWarnings(m)
    IN  [valid |-> Len(errors) = 0, errors |-> errors, warnings |-> warnings]


-----------------------------------------------------------------------------
(* Packages: what the sources of an import hold *)

Str_a       == <<"a">>
Str_b       == <<"b">>
Str_Bad     == <<"B", "a", "d">>
Str_1_0_0   == <<"1", ".", "0", ".", "0">>
Str_desc    == <<"d", "e", "s", "c">>
Str_engine  == <<">", "=", "1">>
Str_SOUL    == <<"S", "O", "U", "L", ".", "m", "d">>
Str_escape  == <<".", ".", "/", "x">>

\* a complete manifest that declares required env vars and an external skill
ManifestA ==
    [name |-> Str_a, version |-> Str_1_0_0, description |-> Str_desc,
     engine |-> [clawdbot |-> Str_engine], context |-> [soul |-> Str_SOUL],
     env |-> [required |-> <<"K1", "K2">>],
     skills |-> [external |-> <<[name |-> "web-search"]>>],
     hooks |-> [post_install |-> <<"h", ".", "s", "h">>]]

\* a complete manifest with nothing optional
ManifestB ==
    [name |-> Str_b, version |-> Str_1_0_0, description |-> Str_desc,
     engine |-> [clawdbot |-> Str_engine], context |-> [soul |-> Str_SOUL]]

\* a manifest with three violations: bad name, no version, escaping soul path
ManifestInvalid ==
    [name |-> Str_Bad, description |-> Str_desc,
     engine |-> [clawdbot |-> Str_engine], context |-> [soul |-> Str_escape]]

AgentNames == {Str_a, Str_b}

\* yaml.load on the text of a porter.yaml: throws on malformed text, returns
\* undefined for an empty document, otherwise the parsed record
YamlLoad(content) ==
    CASE content = "yaml:A"        -> [throws |-> FALSE, null |-> FALSE, doc |-> ManifestA]
      [] content = "yaml:B"        -> [throws |-> FALSE, null |-> FALSE, doc |-> ManifestB]
      [] content = "yaml:invalid"  -> [throws |-> FALSE, null |-> FALSE, doc |-> ManifestInvalid]
      [] content = "yaml:empty"    -> [throws |-> FALSE, null |-> TRUE,  doc |-> ManifestB]
      [] OTHER                     -> [throws |-> TRUE,  null |-> FALSE, doc |-> ManifestB]

EmptyTree == [p \in {} |-> ""]

TreeA ==
    [p \in {"porter.yaml", "SOUL.md", "skills/s/x.md", "USER.md.template"} |->
        CASE p = "porter.yaml"      -> "yaml:A"
          [] p = "SOUL.md"          -> "soul A"
          [] p = "skills/s/x.md"    -> "skill x"
          [] p = "USER.md.template" -> "template A"]

\* ships its own USER.md next to the template
TreeB ==
    [p \in {"porter.yaml", "SOUL.md", "USER.md", "USER.md.template"} |->
        CASE p = "porter.yaml"      -> "yaml:B"
          [] p = "SOUL.md"          -> "soul B"
          [] p = "USER.md"          -> "user shipped"
          [] p = "USER.md.template" -> "template B"]

TreeNoManifest == [p \in {"SOUL.md"} |-> "soul N"]

TreeInvalid ==
    [p \in {"porter.yaml", "SOUL.md"} |->
        IF p = "porter.yaml" THEN "yaml:invalid" ELSE "soul I"]

TreeMalformed ==
    [p \in {"porter.yaml", "SOUL.md"} |->
        IF p = "porter.yaml" THEN "yaml:{{{" ELSE "soul M"]

TreeEmptyYaml == [p \in {"porter.yaml"} |-> "yaml:empty"]

\* a cloned repository, still holding git's metadata
TreeRepo ==
    [p \in DOMAIN TreeA \cup {".git/HEAD"} |->
        IF p = ".git/HEAD" THEN "ref" ELSE TreeA[p]]

GitMetaPaths == {".git/HEAD"}

\* the order in which a recursive readdir lists the files of a directory
FileOrder ==
    <<"porter.yaml", "SOUL.md", "USER.md", "USER.md.template", "notes.md",
      "skills/s/x.md", ".git/HEAD">>

InTree(t) == LET Test(p) == p \in DOMAIN t IN SelectSeq(FileOrder, Test)

Overlay(under, over) ==
    [p \in DOMAIN under \cup DOMAIN over |->
        IF p \in DOMAIN over THEN over[p] ELSE under[p]]


-----------------------------------------------------------------------------
(* Source strings *)

\* s.startsWith(prefix)
StartsWith(s, prefix) ==
    Len(s) >= Len(prefix) /\ SubSeq(s, 1, Len(prefix)) = prefix

\* s.endsWith(suffix)
EndsWith(s, suffix) ==
    Len(s) >= Len(suffix) /\ SubSeq(s, Len(s) - Len(suffix) + 1, Len(s)) = suffix

\* s.split(c): the pieces of s between occurrences of the character c
RECURSIVE Split(_, _)
Split(s, c) ==
    IF \E i \in 1..Len(s) : s[i] = c
    THEN LET i == CHOOSE k \in 1..Len(s) : s[k] = c /\ \A j \in 1..(k - 1) : s[j] # c
         IN  <<SubSeq(s, 1, i - 1)>> \o Split(SubSeq(s, i + 1, Len(s)), c)
    ELSE <<s>>

Str_github == <<"g", "i", "t", "h", "u", "b", ":">>
Str_targz  == <<".", "t", "a", "r", ".", "g", "z">>
Str_tgz    == <<".", "t", "g", "z">>

GitHubPrefixLen == 7

\* parseGitHubSource: null, or {owner, repo, version?}
parseGitHubSource(source) ==
    IF ~StartsWith(source, Str_github) THEN [null |-> TRUE]
    ELSE LET path     == SubSeq(source, GitHubPrefixLen + 1, Len(source))
             atParts  == Split(path, "@")
             repoPath == atParts[1]
             parts    == Split(repoPath, "/")
             owner    == parts[1]
         IN  IF owner = <<>> \/ Len(parts) < 2 \/ parts[2] = <<>>
             THEN [null |-> TRUE]
             ELSE [null |-> FALSE, owner |-> owner, repo |-> parts[2]]
                  @@ (IF Len(atParts) >= 2 /\ atParts[2] # <<>>
                      THEN [version |-> atParts[2]]
                      ELSE [null |-> FALSE])

\* source.endsWith('.tar.gz') || source.endsWith('.tgz')
IsArchiveName(source) == EndsWith(source, Str_targz) \/ EndsWith(source, Str_tgz)


-----------------------------------------------------------------------------
(* The filesystem *)

NoRoots == [r \in {} |-> EmptyTree]

\* a staging directory that does not exist
AbsentDir == [exists |-> FALSE, roots |-> NoRoots]

\* an agent directory that does not exist
AbsentAgent == [exists |-> FALSE, files |-> EmptyTree]

Str_target == <<"T">>
Str_ghtemp == <<"/", ".", "g", "h", "/">>

\* path.join(targetDir, manifest.name)
AgentDir(name) == Str_target \o <<"/">> \o name

\* path.join(targetDir, '.porter-github-temp', source.repo)
CloneDir(repo) == Str_target \o Str_ghtemp \o repo

Src_dirA       == <<"d", "A">>
Src_dirB       == <<"d", "B">>
Src_dirNoMan   == <<"d", "N">>
Src_dirInvalid == <<"d", "I">>
Src_dirBadYaml == <<"d", "Y">>
Src_dirEmptyY  == <<"d", "E">>
Src_missing    == <<"n", "o">>
Src_tgzA       == <<"A">> \o Str_tgz
Src_tgzB       == <<"B">> \o Str_targz
Src_tgzNoMan   == <<"N">> \o Str_tgz
Src_tgzEmpty   == <<"E">> \o Str_tgz
Src_tgzTwo     == <<"M">> \o Str_tgz
Src_tgzCorrupt == <<"X">> \o Str_targz
Src_github     == Str_github \o <<"o", "/", "r">>
Src_githubV    == Str_github \o <<"o", "/", "r", "@", "v">>
Src_githubBad  == Str_github \o <<"o">>

Sources ==
    {Src_dirA, Src_dirB, Src_dirNoMan, Src_dirInvalid, Src_dirBadYaml,
     Src_dirEmptyY, Src_missing, Src_tgzA, Src_tgzB, Src_tgzNoMan,
     Src_tgzEmpty, Src_tgzTwo, Src_tgzCorrupt,
     Src_github, Src_githubV, Src_githubBad}

DiskDir(tree)      == [kind |-> "dir", tree |-> tree, roots |-> NoRoots]
DiskArchive(roots) == [kind |-> "archive", tree |-> EmptyTree, roots |-> roots]
DiskNone           == [kind |-> "none", tree |-> EmptyTree, roots |-> NoRoots]
DiskCorrupt        == [kind |-> "corrupt", tree |-> EmptyTree, roots |-> NoRoots]

OneRoot(r, tree) == [x \in {r} |-> tree]

\* what lies at a path outside the target root
Disk(source) ==
    CASE source = Src_dirA       -> DiskDir(TreeA)
      [] source = Src_dirB       -> DiskDir(TreeB)
      [] source = Src_dirNoMan   -> DiskDir(TreeNoManifest)
      [] source = Src_dirInvalid -> DiskDir(TreeInvalid)
      [] source = Src_dirBadYaml -> DiskDir(TreeMalformed)
      [] source = Src_dirEmptyY  -> DiskDir(TreeEmptyYaml)
      [] source = Src_tgzA       -> DiskArchive(OneRoot("a-1.0.0", TreeA))
      [] source = Src_tgzB       -> DiskArchive(OneRoot("b-1.0.0", TreeB))
      [] source = Src_tgzNoMan   -> DiskArchive(OneRoot("n", TreeNoManifest))
      [] source = Src_tgzEmpty   -> DiskArchive(NoRoots)
      [] source = Src_tgzTwo     ->
            DiskArchive([x \in {"m1", "m2"} |-> IF x = "m1" THEN TreeA ELSE TreeB])
      [] source = Src_tgzCorrupt -> DiskCorrupt
      [] OTHER                   -> DiskNone

\* what a path names: a clone inside the github staging directory, else Disk
At(f, source) ==
    IF StartsWith(source, Str_target \o Str_ghtemp)
    THEN LET repo == SubSeq(source, Len(Str_target \o Str_ghtemp) + 1, Len(source))
         IN  IF f.ghTemp.exists /\ repo \in DOMAIN f.ghTemp.roots
             THEN DiskDir(f.ghTemp.roots[repo])
             ELSE DiskNone
    ELSE Disk(source)

\* the mutation: every extraction gets a staging directory of its own
ExtractIsolated(temp, roots) == [exists |-> TRUE, roots |-> roots]

\* tar.extract into an existing staging directory: entries merge with what is there
ExtractInto(temp, roots) ==
    [exists |-> TRUE,
     roots  |-> [r \in DOMAIN temp.roots \cup DOMAIN roots |->
                    IF r \in DOMAIN roots
                    THEN (IF r \in DOMAIN temp.roots
                          THEN Overlay(temp.roots[r], roots[r]) ELSE roots[r])
                    ELSE temp.roots[r]]]

-----------------------------------------------------------------------------
(* Results *)

Failure(errors) == [threw |-> FALSE, success |-> FALSE, errors |-> errors]

\* the call did not return: an exception left it
Thrown == [threw |-> TRUE]

Str_err == <<"e", "r", "r">>


-----------------------------------------------------------------------------
(* importFromLocal *)

\* loadManifest: null when porter.yaml is absent, else whatever yaml.load does
loadManifest(tree) ==
    IF "porter.yaml" \notin DOMAIN tree
    THEN [throws |-> FALSE, null |-> TRUE, doc |-> ManifestB]
    ELSE YamlLoad(tree["porter.yaml"])

\* the mutation: the staging directory is emptied before the archive is extracted
ResolveSourceFreshStaging(source, f) ==
    IF IsArchiveName(source) /\ At(f, source).kind = "archive"
    THEN LET roots == At(f, source).roots
             f2    == [f EXCEPT !.temp = [exists |-> TRUE, roots |-> roots]]
         IN  IF Cardinality(DOMAIN roots) # 1
             THEN [ok |-> FALSE, fs |-> f2, tree |-> EmptyTree,
                   errors |-> <<Msg("Invalid archive structure - expected single root directory", <<>>)>>]
             ELSE [ok |-> TRUE, fs |-> f2,
                   tree |-> roots[CHOOSE r \in DOMAIN roots : TRUE], errors |-> <<>>]
    ELSE IF IsArchiveName(source)
    THEN [ok |-> FALSE, fs |-> [f EXCEPT !.temp = AbsentDir], tree |-> EmptyTree,
          errors |-> <<Msg("Failed to extract archive: ", Str_err)>>]
    ELSE IF At(f, source).kind # "none"
    THEN [ok |-> TRUE, fs |-> f, tree |-> At(f, source).tree, errors |-> <<>>]
    ELSE [ok |-> FALSE, fs |-> f, tree |-> EmptyTree,
          errors |-> <<Msg("Source not found: ", source)>>]

\* source resolution: archive -> extract into .porter-temp; existing path -> itself
ResolveSource(source, f) ==
    IF IsArchiveName(source)
    THEN IF At(f, source).kind # "archive"
         THEN \* tar.extract threw: the catch block removes the staging directory
              [ok |-> FALSE, fs |-> [f EXCEPT !.temp = AbsentDir], tree |-> EmptyTree,
               errors |-> <<Msg("Failed to extract archive: ", Str_err)>>]
         ELSE LET temp2 == ExtractInto(f.temp, At(f, source).roots)
                  f2    == [f EXCEPT !.temp = temp2]
              IN  IF Cardinality(DOMAIN temp2.roots) # 1
                  THEN [ok |-> FALSE, fs |-> f2, tree |-> EmptyTree,
                        errors |-> <<Msg("Invalid archive structure - expected single root directory", <<>>)>>]
                  ELSE [ok |-> TRUE, fs |-> f2,
                        tree |-> temp2.roots[CHOOSE r \in DOMAIN temp2.roots : TRUE],
                        errors |-> <<>>]
    ELSE IF At(f, source).kind # "none"
         THEN [ok |-> TRUE, fs |-> f, tree |-> At(f, source).tree, errors |-> <<>>]
         ELSE [ok |-> FALSE, fs |-> f, tree |-> EmptyTree,
               errors |-> <<Msg("Source not found: ", source)>>]

\* the collision check: the agent directory exists and force is not set
Collides(f, name, options) == f.agents[name].exists /\ ~options.force

\* the mutation: the agent directory is emptied before the copy
CopyFilesReplacing(tree, dest, failAt) == [threw |-> FALSE, files |-> tree]

\* the mutation: the copy loop stops one file short
CopyFilesOffByOne(tree, dest, failAt) ==
    LET listing == InTree(tree)
        copied  == {listing[i] : i \in 1..(Len(listing) - 1)}
    IN  [threw |-> FALSE,
         files |-> Overlay(dest, [p \in copied |-> tree[p]])]

\* the copy loop: every regular file of the source, in readdir order, onto the
\* agent directory; failAt = k > 0 makes the k-th copy throw (files before it stay)
CopyFiles(tree, dest, failAt) ==
    LET listing == InTree(tree)
        fails   == failAt >= 1 /\ failAt <= Len(listing)
        n       == IF fails THEN failAt - 1 ELSE Len(listing)
        copied  == {listing[i] : i \in 1..n}
    IN  [threw |-> fails,
         files |-> Overlay(dest, [p \in copied |-> tree[p]])]

\* the mutation: the template is copied whether or not USER.md exists
ApplyTemplateOverwrite(files) ==
    IF "USER.md.template" \in DOMAIN files
    THEN Overlay(files, [p \in {"USER.md"} |-> files["USER.md.template"]])
    ELSE files

\* USER.md.template -> USER.md when the template exists and USER.md does not
ApplyTemplate(files) ==
    IF "USER.md.template" \in DOMAIN files /\ "USER.md" \notin DOMAIN files
    THEN Overlay(files, [p \in {"USER.md"} |-> files["USER.md.template"]])
    ELSE files

\* !process.env[envVar]
EnvFalsy(env, envVar) == envVar \notin DOMAIN env \/ env[envVar] = ""

\* the mutation: skipEnv is ignored
MissingEnvNoSkip(manifest, options, env) ==
    IF Has(manifest, "env") /\ Has(manifest.env, "required")
    THEN LET Missing(v) == EnvFalsy(env, v)
         IN  SelectSeq(manifest.env.required, Missing)
    ELSE <<>>

MissingEnv(manifest, options, env) ==
    IF Has(manifest, "env") /\ Has(manifest.env, "required") /\ ~options.skipEnv
    THEN LET Missing(v) == EnvFalsy(env, v)
         IN  SelectSeq(manifest.env.required, Missing)
    ELSE <<>>

InstalledSkills(manifest, options) ==
    IF Has(manifest, "skills") /\ Has(manifest.skills, "external") /\ ~options.skipSkills
    THEN [i \in 1..Len(manifest.skills.external) |-> manifest.skills.external[i].name]
    ELSE <<>>

\* if (await fs.pathExists(tempDir)) await fs.remove(tempDir)
CleanupTemp(f) == [f EXCEPT !.temp = AbsentDir]

Success(agentPath, missingEnv, installedSkills) ==
    [threw |-> FALSE, success |-> TRUE, agentPath |-> agentPath]
    @@ (IF Len(missingEnv) > 0 THEN [missingEnv |-> missingEnv] ELSE [threw |-> FALSE])
    @@ (IF Len(installedSkills) > 0 THEN [installedSkills |-> installedSkills]
        ELSE [threw |-> FALSE])

\* from the collision check to the return (the manifest is loaded and valid)
Materialize(tree, manifest, f, options, env, oracle) ==
    IF Collides(f, manifest.name, options)
    THEN [fs |-> f,
          result |-> Failure(<<Msg("Agent directory already exists: %s. Use --force to overwrite.",
                                   AgentDir(manifest.name))>>)]
    ELSE LET old    == f.agents[manifest.name].files
             copy   == CopyFiles(tree, old, oracle.copyFailAt)
             copied == [f EXCEPT !.agents[manifest.name] =
                                    [exists |-> TRUE, files |-> copy.files]]
             done   == [f EXCEPT !.agents[manifest.name] =
                                    [exists |-> TRUE, files |-> ApplyTemplate(copy.files)]]
         IN  IF copy.threw
             THEN [fs |-> copied, result |-> Thrown]
             ELSE [fs |-> CleanupTemp(done),
                   result |-> Success(AgentDir(manifest.name),
                                      MissingEnv(manifest, options, env),
                                      InstalledSkills(manifest, options))]

\* load and validate the manifest, then materialize
LoadValidateCopy(tree, f, options, env, oracle) ==
    LET loaded == loadManifest(tree)
    IN  IF loaded.throws THEN [fs |-> f, result |-> Thrown]
        ELSE IF loaded.null
        THEN [fs |-> f, result |-> Failure(<<Msg("No porter.yaml found in package", <<>>)>>)]
        ELSE IF ~validateManifest(loaded.doc).valid
        THEN [fs |-> f, result |-> Failure(validateManifest(loaded.doc).errors)]
        ELSE Materialize(tree, loaded.doc, f, options, env, oracle)

importFromLocal(source, f, options, env, oracle) ==
    LET src == ResolveSource(source, f)
    IN  IF ~src.ok THEN [fs |-> src.fs, result |-> Failure(src.errors)]
        ELSE LoadValidateCopy(src.tree, src.fs, options, env, oracle)


-----------------------------------------------------------------------------
(* GitHub sources *)

\* how `git clone` can end: the oracle of the remote world
CloneOutcomes == {"ok", "repo-missing", "version-missing", "timeout"}

\* which of the phrases the catch block searches for occur in error.message
CloneErrorPhrases(outcome) ==
    CASE outcome = "repo-missing"    -> {"not found"}
      [] outcome = "version-missing" -> {"not found", "Could not find remote branch"}
      [] OTHER                       -> {}

\* the catch block of fetchGitHubRepo
ClassifyCloneError(phrases, gh) ==
    IF "not found" \in phrases \/ "404" \in phrases
    THEN Msg("Repository not found: https://github.com/", gh.owner \o <<"/">> \o gh.repo)
    ELSE IF "could not find remote branch" \in phrases \/ "did not match any" \in phrases
    THEN Msg("Version not found: %s. Check available tags with: gh release list -R",
             IF Has(gh, "version") THEN gh.version ELSE <<>>)
    ELSE Msg("Failed to clone: ", Str_err)

\* fs.remove(path.join(cloneDir, '.git'))
StripGit(tree) == [p \in DOMAIN tree \ GitMetaPaths |-> tree[p]]

\* remove any old staging directory, recreate it, clone into it
fetchGitHubRepo(gh, f, oracle) ==
    LET fresh == [f EXCEPT !.ghTemp = [exists |-> TRUE, roots |-> NoRoots]]
    IN  IF oracle.clone = "ok"
        THEN [success |-> TRUE,
              path    |-> CloneDir(gh.repo),
              error   |-> Msg("", <<>>),
              fs      |-> [f EXCEPT !.ghTemp =
                              [exists |-> TRUE,
                               roots  |-> [r \in {gh.repo} |-> StripGit(TreeRepo)]]]]
        ELSE [success |-> FALSE,
              path    |-> <<>>,
              error   |-> ClassifyCloneError(CloneErrorPhrases(oracle.clone), gh),
              fs      |-> fresh]

cleanupGitHubTemp(f) == [f EXCEPT !.ghTemp = AbsentDir]

importFromGitHub(gh, f, options, env, oracle) ==
    LET fetched == fetchGitHubRepo(gh, f, oracle)
    IN  IF ~fetched.success \/ fetched.path = <<>>
        THEN [fs |-> fetched.fs, result |-> Failure(<<fetched.error>>)]
        ELSE LET r == importFromLocal(fetched.path, fetched.fs, options, env, oracle)
             IN  IF r.result.threw
                 THEN [fs     |-> cleanupGitHubTemp(r.fs),
                       result |-> Failure(<<Msg("Import failed: ", Str_err)>>)]
                 ELSE [fs |-> cleanupGitHubTemp(r.fs), result |-> r.result]

importAgent(source, f, options, env, oracle) ==
    LET gh == parseGitHubSource(source)
    IN  IF ~gh.null
        THEN importFromGitHub(gh, f, options, env, oracle)
        ELSE importFromLocal(source, f, options, env, oracle)

-----------------------------------------------------------------------------
(* The state machine of imports into one target root *)

MaxCalls      == 2
MaxCopyFailAt == 1

EnvNone     == [v \in {} |-> ""]
EnvAll      == [v \in {"K1", "K2"} |-> "x"]
EnvEmptyK2  == [v \in {"K1", "K2"} |-> IF v = "K1" THEN "x" ELSE ""]

Envs == {EnvNone, EnvAll, EnvEmptyK2}

\* an agent directory left by an earlier installation
OldAgent ==
    [exists |-> TRUE,
     files  |-> [p \in {"USER.md", "notes.md", "SOUL.md"} |->
                    CASE p = "USER.md"  -> "user mine"
                      [] p = "notes.md" -> "notes mine"
                      [] p = "SOUL.md"  -> "soul old"]]

EmptyAgent == [exists |-> TRUE, files |-> EmptyTree]

\* a target root that holds nothing yet
CleanFs ==
    [temp |-> AbsentDir, ghTemp |-> AbsentDir,
     agents |-> [n \in AgentNames |-> AbsentAgent]]

\* a target root where both agent directories exist already
UsedFs ==
    [temp |-> AbsentDir, ghTemp |-> AbsentDir,
     agents |-> [n \in AgentNames |-> IF n = Str_a THEN OldAgent ELSE EmptyAgent]]

InitFs == {CleanFs, UsedFs}

None == [none |-> TRUE]

\* a property that may be left out, or set to one of vals
Optional(field, vals) ==
    {[x \in {} |-> <<>>]} \cup {[x \in {field} |-> v] : v \in vals}

Str_v1  == <<"v", "1">>
Str_abs == <<"/", "i">>

Str_cfg   == <<"c", ".", "j", "s", "o", "n">>
Str_hook  == <<"h", ".", "s", "h">>
Str_skill == <<"s", "k">>

\* skills.bundled, mcp, seeds and hooks of a manifest: left out, each one alone
\* with a path that leaves the workspace, or all of them with paths inside it
OtherPathFields ==
    {[f \in {} |-> <<>>],
     [skills |-> [bundled |-> <<[path |-> Str_escape], [path |-> Str_skill]>>]],
     [mcp    |-> <<[name |-> "m", config |-> Str_escape]>>],
     [seeds  |-> [memory |-> <<Str_abs>>]],
     [hooks  |-> [post_install |-> Str_escape]],
     [skills |-> [bundled |-> <<[path |-> Str_skill]>>],
      mcp    |-> <<[name |-> "m", config |-> Str_cfg]>>,
      seeds  |-> [memory |-> <<Str_SOUL>>],
      hooks  |-> [post_install |-> Str_hook]]}

\* the manifests handed to validateManifest
Manifests ==
    {n @@ v @@ d @@ e @@ c @@ a @@ r @@ x :
        n \in Optional("name", {<<>>, Str_a, Str_Bad}),
        v \in Optional("version", {<<>>, Str_1_0_0, Str_v1}),
        d \in Optional("description", {<<>>, Str_desc}),
        e \in Optional("engine", Optional("clawdbot", {<<>>, Str_engine})),
        c \in Optional("context",
                Optional("soul", {<<>>, Str_SOUL, Str_escape})
                    \cup {[soul |-> Str_SOUL, identity |-> Str_abs]}),
        a \in Optional("assets", {<<Str_escape, Str_SOUL>>}),
        r \in Optional("env", {[required |-> <<"K1">>]}),
        x \in OtherPathFields}

Init ==
    /\ fs \in InitFs
    /\ pre = None
    /\ call = None
    /\ result = None
    /\ ncalls = 0
    /\ vm = ManifestB
    /\ vres = None
    /\ ws = None
    /\ scan = None
    /\ leaks = None
    /\ xcall = None
    /\ xres = None
    /\ procs = None

\* the caller invokes importAgent and waits for it to return
ImportAgentCall ==
    /\ ncalls < MaxCalls
    /\ result = None
    /\ \E source \in Sources, force \in BOOLEAN, skipEnv \in BOOLEAN,
          skipSkills \in BOOLEAN, env \in Envs, copyFailAt \in 0..MaxCopyFailAt :
         \E clone \in (IF parseGitHubSource(source).null THEN {"none"}
                       ELSE IF Has(parseGitHubSource(source), "version") THEN CloneOutcomes
                       ELSE CloneOutcomes \ {"version-missing"}) :
            LET options == [force |-> force, skipEnv |-> skipEnv, skipSkills |-> skipSkills]
                oracle  == [copyFailAt |-> copyFailAt, clone |-> clone]
                r       == importAgent(source, fs, options, env, oracle)
            IN  /\ fs' = r.fs
                /\ result' = r.result
                /\ pre' = fs
                /\ call' = [source |-> source, options |-> options, env |-> env,
                            oracle |-> oracle]
    /\ ncalls' = ncalls + 1
    /\ UNCHANGED <<vm, vres, ws, scan, leaks, xcall, xres, procs>>

\* the caller has reported the result of the call; the next call may start
ReportResult ==
    /\ result # None
    /\ result' = None
    /\ call' = None
    /\ pre' = None
    /\ UNCHANGED <<fs, ncalls, vm, vres, ws, scan, leaks, xcall, xres, procs>>

Next == ImportAgentCall \/ ReportResult

Spec == Init /\ [][Next]_vars


-----------------------------------------------------------------------------
(* validateManifest applied to every manifest of the bounded universe *)

InitValidate ==
    /\ vm \in Manifests
    /\ vres = None
    /\ fs = CleanFs
    /\ pre = None
    /\ call = None
    /\ result = None
    /\ ncalls = 0
    /\ ws = None
    /\ scan = None
    /\ leaks = None
    /\ xcall = None
    /\ xres = None
    /\ procs = None

Validate ==
    /\ vres = None
    /\ vres' = validateManifest(vm)
    /\ UNCHANGED <<vm, fs, pre, call, result, ncalls, ws, scan, leaks, xcall, xres, procs>>

NextValidate == Validate

SpecValidate == InitValidate /\ [][NextValidate]_vars


-----------------------------------------------------------------------------
(* Vocabulary of the import claims *)

\* an importAgent call has ended and its result has not been reported yet
Called == result # None

\* the call returned a result (it did not throw)
Returned == Called /\ ~result.threw

Succeeded == Returned /\ result.success

Failed == Returned /\ ~result.success

IsRemoteCall == Called /\ ~parseGitHubSource(call.source).null

IsArchiveCall == Called /\ parseGitHubSource(call.source).null /\ IsArchiveName(call.source)

IsDirectoryCall ==
    /\ Called
    /\ parseGitHubSource(call.source).null
    /\ ~IsArchiveName(call.source)
    /\ Disk(call.source).kind = "dir"

SeqToSet(q) == {q[i] : i \in 1..Len(q)}

\* the package the caller named, when the source names exactly one: a directory,
\* an archive with a single top-level entry, or a repository that clones
NamedPackage ==
    IF IsRemoteCall
    THEN IF call.oracle.clone = "ok"
         THEN [defined |-> TRUE, tree |-> StripGit(TreeRepo)]
         ELSE [defined |-> FALSE, tree |-> EmptyTree]
    ELSE IF IsArchiveName(call.source)
    THEN IF Disk(call.source).kind = "archive"
            /\ Cardinality(DOMAIN Disk(call.source).roots) = 1
         THEN [defined |-> TRUE,
               tree |-> Disk(call.source).roots[
                            CHOOSE r \in DOMAIN Disk(call.source).roots : TRUE]]
         ELSE [defined |-> FALSE, tree |-> EmptyTree]
    ELSE IF Disk(call.source).kind = "dir"
         THEN [defined |-> TRUE, tree |-> Disk(call.source).tree]
         ELSE [defined |-> FALSE, tree |-> EmptyTree]

\* the named package has a porter.yaml that parses to a record
NamedManifestLoads ==
    /\ NamedPackage.defined
    /\ "porter.yaml" \in DOMAIN NamedPackage.tree
    /\ ~YamlLoad(NamedPackage.tree["porter.yaml"]).throws
    /\ ~YamlLoad(NamedPackage.tree["porter.yaml"]).null

NamedManifest == YamlLoad(NamedPackage.tree["porter.yaml"]).doc

NamedManifestValid == NamedManifestLoads /\ validateManifest(NamedManifest).valid

NamedManifestAbsent ==
    NamedPackage.defined /\ "porter.yaml" \notin DOMAIN NamedPackage.tree

CollisionError(name) ==
    Msg("Agent directory already exists: %s. Use --force to overwrite.", AgentDir(name))

NoManifestError == Msg("No porter.yaml found in package", <<>>)

InvalidArchiveError ==
    Msg("Invalid archive structure - expected single root directory", <<>>)

\* the agent a successful call installed
InstalledName == CHOOSE n \in AgentNames : AgentDir(n) = result.agentPath

\* the directory the pipeline copied from in a successful call
CopiedTree ==
    IF IsRemoteCall
    THEN LET fetched == fetchGitHubRepo(parseGitHubSource(call.source), pre, call.oracle)
         IN  ResolveSource(fetched.path, fetched.fs).tree
    ELSE ResolveSource(call.source, pre).tree

-----------------------------------------------------------------------------
(* C1..C10 *)

\* C1: after importAgent ends an archive import (a local source ending in
\* .tar.gz or .tgz), the staging directory <target>/.porter-temp does not exist.
C1_StagingRemovedAfterArchiveImport == IsArchiveCall => ~fs.temp.exists

\* C2: after importAgent ends a remote-repository import, the staging directory
\* <target>/.porter-github-temp does not exist.
C2_GitHubStagingRemoved == IsRemoteCall => ~fs.ghTemp.exists

\* C3: when the named package holds a valid manifest and <target>/<name>
\* already exists: without force the call returns success=false with the
\* collision error naming the directory and --force, and the agent directory is
\* untouched; with force the call goes on to the copy step instead: it does not
\* return the collision error, and it succeeds unless a copy fails.
C3_CollisionNeedsForce ==
    (Called /\ NamedManifestValid /\ pre.agents[NamedManifest.name].exists) =>
        IF call.options.force
        THEN /\ ~(Failed /\ result.errors = <<CollisionError(NamedManifest.name)>>)
             /\ call.oracle.copyFailAt = 0 => Succeeded
        ELSE /\ Failed
             /\ result.errors = <<CollisionError(NamedManifest.name)>>
             /\ fs.agents = pre.agents

\* C4: the target is written only when the named package's manifest loaded and
\* passed validation; an absent manifest gives success=false with the
\* no-manifest error, an invalid one gives success=false with exactly the
\* validator's errors, and in both cases no agent directory is created or changed.
C4_WriteOnlyAfterValidation ==
    Called =>
        /\ (fs.agents # pre.agents) => NamedManifestValid
        /\ NamedManifestAbsent =>
              (Failed /\ result.errors = <<NoManifestError>> /\ fs.agents = pre.agents)
        /\ (NamedManifestLoads /\ ~NamedManifestValid) =>
              /\ Failed
              /\ result.errors = validateManifest(NamedManifest).errors
              /\ fs.agents = pre.agents

\* C5: importAgent never throws; it returns a result in which success=false
\* implies a non-empty errors list and success=true implies agentPath is set
\* and errors is absent.
C5_NeverThrows ==
    Called =>
        /\ ~result.threw
        /\ ~result.success => (Has(result, "errors") /\ Len(result.errors) > 0)
        /\ result.success => (Has(result, "agentPath") /\ ~Has(result, "errors"))

\* C6: a successful import from a directory puts every regular file of the
\* source, at every depth, at the same relative path under <target>/<name>
\* with the same content, and returns agentPath = <target>/<name>.
C6_DirectoryImportCopiesEveryFile ==
    (IsDirectoryCall /\ Succeeded) =>
        LET src  == Disk(call.source).tree
            name == YamlLoad(src["porter.yaml"]).doc.name
        IN  /\ result.agentPath = AgentDir(name)
            /\ fs.agents[name].exists
            /\ \A p \in DOMAIN src :
                  /\ p \in DOMAIN fs.agents[name].files
                  /\ fs.agents[name].files[p] = src[p]

C6_Witness ==
    /\ IsDirectoryCall /\ Succeeded
    /\ call.source = Src_dirA
    /\ "skills/s/x.md" \in DOMAIN fs.agents[Str_a].files
    /\ "skills/s/x.md" \notin DOMAIN pre.agents[Str_a].files


\* the names of required that the process environment does not define at all
AbsentFromEnv(required, env) ==
    LET Absent(v) == v \notin DOMAIN env IN SelectSeq(required, Absent)

\* the names of required that the environment does not define or defines as ""
AbsentOrEmptyInEnv(required, env) ==
    LET Unset(v) == v \notin DOMAIN env \/ env[v] = "" IN SelectSeq(required, Unset)

\* env.required of the manifest the pipeline loaded in a successful call
RequiredOfCall ==
    LET m == loadManifest(CopiedTree).doc
    IN  IF Has(m, "env") /\ Has(m.env, "required") THEN m.env.required ELSE <<>>

\* missingEnv of the result is `expected`, and is left out when that is empty
ReportsMissing(expected) ==
    IF call.options.skipEnv \/ expected = <<>>
    THEN ~Has(result, "missingEnv")
    ELSE Has(result, "missingEnv") /\ result.missingEnv = expected

\* the same call under another environment ends the same way
SuccessIgnoresEnv ==
    \A e \in Envs :
        LET other == importAgent(call.source, pre, call.options, e, call.oracle).result
        IN  /\ other.threw = result.threw
            /\ ~other.threw => other.success = result.success

\* C7 as stated: missingEnv is exactly the env.required names absent from the
\* process environment, in declared order, left out when there are none or
\* skipEnv is set; the environment never changes success.
C7_MissingEnvIsAbsentNames ==
    /\ Succeeded => ReportsMissing(AbsentFromEnv(RequiredOfCall, call.env))
    /\ Called => SuccessIgnoresEnv

\* C7 as amended: missingEnv is exactly the env.required names that the process
\* environment does not define or defines as the empty string, in declared
\* order, left out when there are none or skipEnv is set; the environment never
\* changes success.
C7_MissingEnvIsUnsetOrEmptyNames ==
    /\ Succeeded => ReportsMissing(AbsentOrEmptyInEnv(RequiredOfCall, call.env))
    /\ Called => SuccessIgnoresEnv

C7_Witness ==
    /\ Succeeded
    /\ ~call.options.skipEnv
    /\ call.env = EnvNone
    /\ Has(result, "missingEnv")
    /\ result.missingEnv = <<"K1", "K2">>

\* C8: an archive import whose archive does not hold exactly one top-level
\* entry returns success=false with the 'Invalid archive structure' error, and
\* no agent directory is created or changed.
C8_ArchiveNeedsSingleRoot ==
    (IsArchiveCall
        /\ Disk(call.source).kind = "archive"
        /\ Cardinality(DOMAIN Disk(call.source).roots) # 1) =>
            /\ Failed
            /\ result.errors = <<InvalidArchiveError>>
            /\ fs.agents = pre.agents

\* C9: after a successful import, USER.md is a verbatim copy of
\* USER.md.template exactly when the copy step left a template and no USER.md
\* in the agent directory; a USER.md shipped by the source or already in the
\* target keeps its content.
C9_TemplateNeverOverwritesUserMd ==
    Succeeded =>
        LET src       == CopiedTree
            old       == pre.agents[InstalledName].files
            final     == fs.agents[InstalledName].files
            userAfter == "USER.md" \in DOMAIN src \cup DOMAIN old
            tplAfter  == "USER.md.template" \in DOMAIN src \cup DOMAIN old
        IN  /\ userAfter =>
                  /\ "USER.md" \in DOMAIN final
                  /\ final["USER.md"] =
                        IF "USER.md" \in DOMAIN src THEN src["USER.md"] ELSE old["USER.md"]
            /\ (~userAfter /\ tplAfter) =>
                  /\ "USER.md" \in DOMAIN final
                  /\ final["USER.md"] = final["USER.md.template"]
            /\ (~userAfter /\ ~tplAfter) => "USER.md" \notin DOMAIN final

C9_Witness ==
    /\ Succeeded
    /\ InstalledName = Str_a
    /\ "USER.md" \notin DOMAIN pre.agents[Str_a].files
    /\ "USER.md" \in DOMAIN fs.agents[Str_a].files
    /\ fs.agents[Str_a].files["USER.md"] = "template A"

\* the property named by `field` (or by its two parts) is not defined
FieldAbsent(m, field) ==
    CASE field = "engine.clawdbot" -> ~(Has(m, "engine") /\ Has(m.engine, "clawdbot"))
      [] field = "context.soul"    -> ~(Has(m, "context") /\ Has(m.context, "soul"))
      [] OTHER                     -> ~Has(m, field)

RequiredFields == {"name", "version", "description", "engine.clawdbot", "context.soul"}

MissingFieldMessage(field) ==
    IF field = "context.soul"
    THEN Msg("Missing required field: context.soul (SOUL.md is required)", <<>>)
    ELSE CASE field = "name"            -> Msg("Missing required field: name", <<>>)
           [] field = "version"         -> Msg("Missing required field: version", <<>>)
           [] field = "description"     -> Msg("Missing required field: description", <<>>)
           [] field = "engine.clawdbot" -> Msg("Missing required field: engine.clawdbot", <<>>)

\* C10: whichever of the required fields a manifest lacks, validateManifest
\* returns valid=false and its errors hold the 'Missing required field'
\* message of every one of them.
C10_EveryMissingFieldReported ==
    vres # None =>
        \A field \in RequiredFields :
            FieldAbsent(vm, field) =>
                /\ ~vres.valid
                /\ MissingFieldMessage(field) \in SeqToSet(vres.errors)

C10_Witness ==
    /\ vres # None
    /\ \A field \in RequiredFields : FieldAbsent(vm, field)
    /\ Len(vres.errors) >= Cardinality(RequiredFields)


-----------------------------------------------------------------------------
(* C11..C12: validateManifest, paths and warnings *)

\* a path that begins with '/' or holds a '..' segment
RECURSIVE HasDotDotSegment(_, _)
HasDotDotSegment(segs, i) ==
    IF i > Len(segs) THEN FALSE
    ELSE segs[i] = <<".", ".">> \/ HasDotDotSegment(segs, i + 1)

Offending(p) == StartsWithSlash(p) \/ HasDotDotSegment(Split(p, "/"), 1)

SeqOrEmpty(obj, f) == IF Has(obj, f) THEN obj[f] ELSE <<>>

SubOrEmpty(obj, f) == IF Has(obj, f) THEN obj[f] ELSE [k \in {} |-> <<>>]

\* the values of every path-valued field of a manifest: context entries,
\* assets, bundled-skill paths, mcp config templates, seed paths, hook paths
PathValues(m) ==
    LET context == SubOrEmpty(m, "context")
        bundled == SeqOrEmpty(SubOrEmpty(m, "skills"), "bundled")
        mcp     == SeqOrEmpty(m, "mcp")
        seeds   == SubOrEmpty(m, "seeds")
        hooks   == SubOrEmpty(m, "hooks")
    IN  {context[k] : k \in DOMAIN context}
        \cup SeqToSet(SeqOrEmpty(m, "assets"))
        \cup {bundled[i].path : i \in DOMAIN bundled}
        \cup {mcp[i].config : i \in {j \in DOMAIN mcp : Has(mcp[j], "config")}}
        \cup UNION {SeqToSet(seeds[k]) : k \in DOMAIN seeds}
        \cup {hooks[k] : k \in DOMAIN hooks}

InvalidPathError(p) == Msg("Invalid path (must be relative, no ..): ", p)

\* C11: a value of any path-valued field (context entries, assets,
\* bundled-skill paths, mcp config templates, seed paths, hook paths) that
\* begins with '/' or contains a '..' segment makes validateManifest return
\* valid=false with an 'Invalid path' error for that path.
C11_EveryUnsafePathRejected ==
    vres # None =>
        \A p \in PathValues(vm) :
            Offending(p) =>
                /\ ~vres.valid
                /\ InvalidPathError(p) \in SeqToSet(vres.errors)

SemverWarning == Msg("Version should follow semver (e.g., 1.0.0)", <<>>)

NoEnvWarning ==
    Msg("No environment variables declared - agent may not work without API keys", <<>>)

VersionNotSemver(m) == Truthy(m, "version") /\ ~SemverRegexTest(m.version)

NoEnvDeclared(m) == ~Truthy2(m, "env", "required") /\ ~Truthy2(m, "env", "optional")

\* the manifest with a semver version and a declared variable, otherwise unchanged
WithoutWarningCauses(m) ==
    [version |-> Str_1_0_0, env |-> [required |-> <<"K1">>]] @@ m

\* C12: valid is true exactly when errors is empty; a version that is present
\* but not semver-shaped, and the absence of any declared environment
\* variable, each add their warning and no error: the errors are those of the
\* same manifest with a semver version and a declared variable.
C12_WarningsNeverInvalidate ==
    vres # None =>
        /\ vres.valid <=> (vres.errors = <<>>)
        /\ VersionNotSemver(vm) => SemverWarning \in SeqToSet(vres.warnings)
        /\ NoEnvDeclared(vm) => NoEnvWarning \in SeqToSet(vres.warnings)
        /\ {SemverWarning, NoEnvWarning} \cap SeqToSet(vres.errors) = {}
        /\ (Truthy(vm, "version") =>
               vres.errors = validateManifest(WithoutWarningCauses(vm)).errors)

C12_Witness ==
    /\ vres # None
    /\ VersionNotSemver(vm)
    /\ NoEnvDeclared(vm)
    /\ vres.valid
    /\ vres.warnings = <<SemverWarning, NoEnvWarning>>

-----------------------------------------------------------------------------
(* Workspace paths *)

Str_dot       == <<".">>
Str_porter    == <<"p", "o", "r", "t", "e", "r", ".", "y", "a", "m", "l">>
Str_IDENTITY  == <<"I", "D", "E", "N", "T", "I", "T", "Y", ".", "m", "d">>
Str_MISSING   == <<"M", "I", "S", "S", "I", "N", "G", ".", "m", "d">>
Str_USER      == <<"U", "S", "E", "R", ".", "m", "d">>
Str_dotUSER   == <<".", "/", "U", "S", "E", "R", ".", "m", "d">>
Str_template  == <<"U", "S", "E", "R", ".", "m", "d", ".", "t", "e", "m", "p", "l", "a", "t", "e">>
Str_env       == <<".", "e", "n", "v">>
Str_memoryDir == <<"m", "e", "m", "o", "r", "y", "/">>
Str_notes     == <<"m", "e", "m", "o", "r", "y", "/", "n", "o", "t", "e", "s", ".", "m", "d">>
Str_avatarDir == <<"a", "v", "a", "t", "a", "r", "s", "/">>
Str_avatar    == <<"a", "v", "a", "t", "a", "r", "s", "/", "a", ".", "p", "n", "g">>
Str_skillDir  == <<"s", "k", "i", "l", "l", "s", "/", "s">>
Str_skillMd   == <<"s", "k", "i", "l", "l", "s", "/", "s", "/", "S", "K", "I", "L", "L", ".", "m", "d">>
Str_skillLog  == <<"s", "k", "i", "l", "l", "s", "/", "s", "/", "r", "u", "n", ".", "l", "o", "g">>
Str_skillHid  == <<"s", "k", "i", "l", "l", "s", "/", "s", "/", ".", "c", "a", "c", "h", "e">>
Str_mcpCfg    == <<"m", "c", "p", ".", "j", "s", "o", "n">>
Str_starMd    == <<"*", ".", "m", "d">>
Str_starYaml  == <<"*", ".", "y", "a", "m", "l">>

\* path.join(a, b) with a and b already split: '.' and empty segments are
\* dropped, '..' removes the segment before it
RECURSIVE NormalizeSegs(_, _, _)
NormalizeSegs(segs, i, acc) ==
    IF i > Len(segs) THEN acc
    ELSE IF segs[i] = <<>> \/ segs[i] = Str_dot THEN NormalizeSegs(segs, i + 1, acc)
    ELSE IF segs[i] = <<".", ".">>
         THEN NormalizeSegs(segs, i + 1,
                            IF acc = <<>> THEN acc ELSE SubSeq(acc, 1, Len(acc) - 1))
         ELSE NormalizeSegs(segs, i + 1, Append(acc, segs[i]))

RECURSIVE JoinSegs(_, _)
JoinSegs(segs, i) ==
    IF i > Len(segs) THEN <<>>
    ELSE IF i = Len(segs) THEN segs[i]
    ELSE segs[i] \o <<"/">> \o JoinSegs(segs, i + 1)

\* the path below the workspace root that path.join(workspacePath, p) names
Resolve(p) == JoinSegs(NormalizeSegs(Split(p, "/"), 1, <<>>), 1)

\* path.join(dir, f) of two relative paths
PathJoin(dir, f) == Resolve(dir \o <<"/">> \o f)

\* path.basename(file)
Basename(file) ==
    LET segs == NormalizeSegs(Split(file, "/"), 1, <<>>)
    IN  IF segs = <<>> THEN <<>> ELSE segs[Len(segs)]

-----------------------------------------------------------------------------
(* scanWorkspace *)

\* DEFAULT_EXCLUDES of types.ts
DEFAULT_EXCLUDES ==
    <<<<".", "e", "n", "v">>,
      <<".", "e", "n", "v", ".", "*">>,
      <<"*", ".", "s", "e", "c", "r", "e", "t">>,
      <<"m", "e", "m", "o", "r", "y", "/">>,
      <<"*", ".", "l", "o", "g">>,
      <<".", "g", "i", "t", "/">>,
      <<"n", "o", "d", "e", "_", "m", "o", "d", "u", "l", "e", "s", "/">>,
      <<".", "D", "S", "_", "S", "t", "o", "r", "e">>,
      <<"U", "S", "E", "R", ".", "m", "d">>>>

\* the order in which a directory walk meets the files of the workspace
WorkspaceOrder ==
    <<Str_porter, Str_SOUL, Str_IDENTITY, Str_USER, Str_template, Str_env,
      Str_notes, Str_avatar, Str_skillMd, Str_skillLog, Str_skillHid, Str_mcpCfg>>

IsFile(w, p) == Resolve(p) \in DOMAIN w.files

IsDirectory(w, p) ==
    LET d == Resolve(p)
    IN  d = <<>> \/ \E f \in DOMAIN w.files : StartsWith(f, d \o <<"/">>)

\* fs.pathExists(path.join(workspacePath, p))
PathExists(w, p) == IsFile(w, p) \/ IsDirectory(w, p)

\* no segment of the relative path begins with '.' (glob option dot: false)
NoDotSegment(rel) ==
    LET segs == Split(rel, "/")
    IN  \A i \in 1..Len(segs) : segs[i] = <<>> \/ segs[i][1] # "."

\* glob('**/*', {cwd: dir, nodir: true, dot: false}): the files below dir,
\* relative to it
GlobTree(w, dir) ==
    LET d      == Resolve(dir)
        prefix == IF d = <<>> THEN <<>> ELSE d \o <<"/">>
        Rel(f) == SubSeq(f, Len(prefix) + 1, Len(f))
        Under(f) == /\ f \in DOMAIN w.files
                    /\ StartsWith(f, prefix)
                    /\ Len(f) > Len(prefix)
                    /\ NoDotSegment(Rel(f))
        found  == SelectSeq(WorkspaceOrder, Under)
    IN  [i \in 1..Len(found) |-> Rel(found[i])]

\* one path segment against one pattern segment, '*' standing for any run of
\* characters
RECURSIVE WildMatch(_, _, _, _)
WildMatch(pat, i, seg, j) ==
    IF i > Len(pat) THEN j > Len(seg)
    ELSE IF pat[i] = "*"
         THEN \E k \in j..(Len(seg) + 1) : WildMatch(pat, i + 1, seg, k)
         ELSE j <= Len(seg) /\ pat[i] = seg[j] /\ WildMatch(pat, i + 1, seg, j + 1)

\* glob(pattern, {cwd: workspacePath, nodir: true, dot: false}) for patterns
\* made of literal characters and '*': a wildcard does not match a name that
\* begins with '.', a literal '.' does
GlobPattern(w, pattern) ==
    LET psegs == Split(pattern, "/")
        SegOk(ps, fsg) ==
            /\ WildMatch(ps, 1, fsg, 1)
            /\ (fsg # <<>> /\ fsg[1] = ".") => (ps # <<>> /\ ps[1] = ".")
        Matches(f) ==
            LET fsegs == Split(f, "/")
            IN  /\ f \in DOMAIN w.files
                /\ Len(fsegs) = Len(psegs)
                /\ \A i \in 1..Len(psegs) : SegOk(psegs[i], fsegs[i])
    IN  SelectSeq(WorkspaceOrder, Matches)

\* context files that exist, in the order of the entries
\* the mutation: declared paths are kept whether or not they exist
KeepAll(w, paths, i) == paths

RECURSIVE KeepExisting(_, _, _)
KeepExisting(w, paths, i) ==
    IF i > Len(paths) THEN <<>>
    ELSE (IF PathExists(w, paths[i]) THEN <<paths[i]>> ELSE <<>>)
         \o KeepExisting(w, paths, i + 1)

RECURSIVE WarnMissing(_, _, _, _)
WarnMissing(w, paths, i, text) ==
    IF i > Len(paths) THEN <<>>
    ELSE (IF PathExists(w, paths[i]) THEN <<>> ELSE <<Msg(text, paths[i])>>)
         \o WarnMissing(w, paths, i + 1, text)

ContextFiles(w, m) == KeepExisting(w, ContextPaths(m, 1), 1)

BundledSkillPaths(m) ==
    IF Has(m, "skills") /\ Has(m.skills, "bundled")
    THEN [i \in 1..Len(m.skills.bundled) |-> m.skills.bundled[i].path]
    ELSE <<>>

RECURSIVE TreesOf(_, _, _)
TreesOf(w, dirs, i) ==
    IF i > Len(dirs) THEN <<>>
    ELSE (IF PathExists(w, dirs[i])
          THEN LET found == GlobTree(w, dirs[i])
               IN  [k \in 1..Len(found) |-> PathJoin(dirs[i], found[k])]
          ELSE <<>>)
         \o TreesOf(w, dirs, i + 1)

BundledFiles(w, m) == TreesOf(w, BundledSkillPaths(m), 1)

RECURSIVE AssetMatches(_, _, _)
AssetMatches(w, patterns, i) ==
    IF i > Len(patterns) THEN <<>>
    ELSE (IF EndsWith(patterns[i], <<"/">>)
          THEN TreesOf(w, <<SubSeq(patterns[i], 1, Len(patterns[i]) - 1)>>, 1)
          ELSE GlobPattern(w, patterns[i]))
         \o AssetMatches(w, patterns, i + 1)

AssetFiles(w, m) == IF Has(m, "assets") THEN AssetMatches(w, m.assets, 1) ELSE <<>>

McpConfigs(m) ==
    IF Has(m, "mcp")
    THEN LET WithConfig(server) == Has(server, "config") /\ server.config # <<>>
             servers == SelectSeq(m.mcp, WithConfig)
         IN  [i \in 1..Len(servers) |-> servers[i].config]
    ELSE <<>>

McpFiles(w, m) == KeepExisting(w, McpConfigs(m), 1)

SeedFiles(m) ==
    IF Has(m, "seeds") /\ Has(m.seeds, "memory") THEN m.seeds.memory ELSE <<>>

\* new RegExp('^' + pattern.replace(/\*/g, '.*') + '$').test(text), for
\* patterns of literal characters, '.' and '*': the '.' is not escaped and
\* stands for any one character
RECURSIVE ExcludeRegexTest(_, _, _, _)
ExcludeRegexTest(pat, i, text, j) ==
    IF i > Len(pat) THEN j > Len(text)
    ELSE IF pat[i] = "*"
         THEN \E k \in j..(Len(text) + 1) : ExcludeRegexTest(pat, i + 1, text, k)
    ELSE IF pat[i] = "."
         THEN j <= Len(text) /\ ExcludeRegexTest(pat, i + 1, text, j + 1)
    ELSE j <= Len(text) /\ pat[i] = text[j] /\ ExcludeRegexTest(pat, i + 1, text, j + 1)

\* one exclude pattern against one candidate path
ExcludeMatch(pattern, file) ==
    IF \E i \in 1..Len(pattern) : pattern[i] = "*"
    THEN ExcludeRegexTest(pattern, 1, file, 1)
         \/ ExcludeRegexTest(pattern, 1, Basename(file), 1)
    ELSE StartsWith(file, pattern) \/ file = pattern

ExcludePatterns(m) == DEFAULT_EXCLUDES \o (IF Has(m, "exclude") THEN m.exclude ELSE <<>>)

IsExcluded(patterns, file) ==
    \E i \in 1..Len(patterns) : ExcludeMatch(patterns[i], file)

FilterExcluded(m, files) ==
    LET patterns   == ExcludePatterns(m)
        Keep(file) == ~IsExcluded(patterns, file)
    IN  SelectSeq(files, Keep)

\* stats.size of path.join(workspacePath, file); a failing stat adds nothing
StatSize(w, file) == IF IsFile(w, file) THEN w.files[Resolve(file)].size ELSE 0

RECURSIVE SumSizes(_, _, _)
SumSizes(w, files, i) ==
    IF i > Len(files) THEN 0 ELSE StatSize(w, files[i]) + SumSizes(w, files, i + 1)

\* the mutation: a repeated path keeps its last place
RECURSIVE DedupeKeepLast(_)
DedupeKeepLast(files) ==
    IF files = <<>> THEN <<>>
    ELSE LET first == files[1]
             rest  == SubSeq(files, 2, Len(files))
         IN  (IF \E i \in 1..Len(rest) : rest[i] = first THEN <<>> ELSE <<first>>)
             \o DedupeKeepLast(rest)

\* [...new Set(files)]: a repeated path keeps its first place
RECURSIVE Dedupe(_)
Dedupe(files) ==
    IF files = <<>> THEN <<>>
    ELSE LET last == files[Len(files)]
             init == SubSeq(files, 1, Len(files) - 1)
         IN  Dedupe(init)
             \o (IF \E i \in 1..Len(init) : init[i] = last THEN <<>> ELSE <<last>>)

\* the candidate list before the exclusion filter, rule after rule
Candidates(w, m) ==
    <<Str_porter>> \o ContextFiles(w, m) \o BundledFiles(w, m) \o AssetFiles(w, m)
        \o McpFiles(w, m) \o SeedFiles(m)

ScanWarnings(w, m) ==
    WarnMissing(w, ContextPaths(m, 1), 1, "Context file not found: ")
        \o WarnMissing(w, BundledSkillPaths(m), 1, "Bundled skill not found: ")
        \o WarnMissing(w, McpConfigs(m), 1, "MCP config template not found: ")

scanWorkspace(w, m) ==
    LET filteredFiles == FilterExcluded(m, Candidates(w, m))
    IN  [files     |-> Dedupe(filteredFiles),
         totalSize |-> SumSizes(w, filteredFiles, 1),
         warnings  |-> ScanWarnings(w, m)]

-----------------------------------------------------------------------------
(* checkForSecrets *)

LowerSeq == <<"a", "b", "c", "d", "e", "f", "g", "h", "i", "j", "k", "l", "m", "n", "o", "p", "q", "r", "s", "t", "u", "v", "w", "x", "y", "z">>

UpperSeq == <<"A", "B", "C", "D", "E", "F", "G", "H", "I", "J", "K", "L", "M", "N", "O", "P", "Q", "R", "S", "T", "U", "V", "W", "X", "Y", "Z">>

UpperLetters == {UpperSeq[i] : i \in 1..Len(UpperSeq)}

ToLower(c) ==
    IF c \in UpperLetters
    THEN LowerSeq[CHOOSE i \in 1..Len(UpperSeq) : UpperSeq[i] = c]
    ELSE c

LowerCase(text) == [i \in 1..Len(text) |-> ToLower(text[i])]

\* [a-zA-Z0-9]
AlnumChars == LowerLetters \cup UpperLetters \cup Digits

\* [a-zA-Z0-9_-]
TokenChars == AlnumChars \cup {"_", "-"}

\* \s, for the whitespace a line can hold
SpaceChars == {" ", "\t"}

QuoteChars == {"\"", "'"}

\* the length of the matched text kept in a leak record
SliceLen == 20

\* secretPatterns: the literal heads a match may begin with (and the set of
\* their first characters), whether case is
\* ignored, whether an assignment ([\s]*[=:]\s*["']?) follows the head, the
\* class of the tail, its least length and whether that length is exact
secretPatterns ==
    <<[heads  |-> {<<"a", "p", "i", "_", "k", "e", "y">>, <<"a", "p", "i", "-", "k", "e", "y">>, <<"a", "p", "i", "k", "e", "y">>, <<"s", "e", "c", "r", "e", "t">>, <<"p", "a", "s", "s", "w", "o", "r", "d">>, <<"t", "o", "k", "e", "n">>, <<"a", "u", "t", "h">>},
       first |-> {"a", "s", "p", "t"}, ignoreCase |-> TRUE, assignment |-> TRUE,
       class |-> TokenChars, least |-> 20, exact |-> FALSE],
      [heads |-> {<<"s", "k", "-">>}, first |-> {"s"}, ignoreCase |-> FALSE, assignment |-> FALSE,
       class |-> AlnumChars, least |-> 32, exact |-> FALSE],
      [heads |-> {<<"x", "a", "i", "-">>}, first |-> {"x"}, ignoreCase |-> FALSE, assignment |-> FALSE,
       class |-> AlnumChars, least |-> 32, exact |-> FALSE],
      [heads |-> {<<"A", "I", "z", "a">>}, first |-> {"A"}, ignoreCase |-> FALSE, assignment |-> FALSE,
       class |-> TokenChars, least |-> 35, exact |-> TRUE],
      [heads |-> {<<"g", "h", "p", "_">>}, first |-> {"g"}, ignoreCase |-> FALSE, assignment |-> FALSE,
       class |-> AlnumChars, least |-> 36, exact |-> TRUE]>>

\* the number of consecutive characters of class from position i on
RECURSIVE RunLength(_, _, _)
RunLength(line, i, class) ==
    IF i > Len(line) \/ line[i] \notin class THEN 0
    ELSE 1 + RunLength(line, i + 1, class)

\* the position after [\s]*[=:]\s*["']? read from position i, or 0 when the
\* separator is missing
AfterAssignment(line, i) ==
    LET sep == i + RunLength(line, i, SpaceChars)
    IN  IF sep > Len(line) \/ line[sep] \notin {"=", ":"} THEN 0
        ELSE LET val == sep + 1 + RunLength(line, sep + 1, SpaceChars)
             IN  IF val <= Len(line) /\ line[val] \in QuoteChars THEN val + 1 ELSE val

\* the last position of the match of pattern that begins at position i, or 0;
\* a head is compared letter by letter, in lower case when case is ignored
MatchEnd(pattern, line, i) ==
    LET Fold(c)   == IF pattern.ignoreCase THEN ToLower(c) ELSE c
        HeadAt(h) == /\ i + Len(h) - 1 <= Len(line)
                     /\ \A k \in 1..Len(h) : Fold(line[i + k - 1]) = h[k]
    IN  IF i > Len(line) \/ Fold(line[i]) \notin pattern.first THEN 0
        ELSE IF ~\E h \in pattern.heads : HeadAt(h) THEN 0
        ELSE LET h    == CHOOSE x \in pattern.heads : HeadAt(x)
                 tail == IF pattern.assignment
                         THEN AfterAssignment(line, i + Len(h)) ELSE i + Len(h)
                 run  == IF tail = 0 THEN 0 ELSE RunLength(line, tail, pattern.class)
             IN  IF tail = 0 \/ run < pattern.least THEN 0
                 ELSE IF pattern.exact THEN tail + pattern.least - 1
                 ELSE tail + run - 1

\* line.match(pattern) of a global pattern: the matched texts from left to
\* right, each search resuming after the previous match
RECURSIVE MatchFrom(_, _, _)
MatchFrom(pattern, line, i) ==
    IF i > Len(line) THEN <<>>
    ELSE LET e == MatchEnd(pattern, line, i)
         IN  IF e = 0 THEN MatchFrom(pattern, line, i + 1)
             ELSE <<SubSeq(line, i, e)>> \o MatchFrom(pattern, line, e + 1)

MatchAll(pattern, line) == MatchFrom(pattern, line, 1)

TextExtensions ==
    {<<".", "m", "d">>, <<".", "y", "a", "m", "l">>, <<".", "y", "m", "l">>, <<".", "j", "s", "o", "n">>, <<".", "t", "x", "t">>, <<".", "j", "s">>, <<".", "t", "s">>}

\* the mutation: only markdown files are inspected
IsTextFileMdOnly(file) == EndsWith(LowerCase(file), <<".", "m", "d">>)

\* /\.(md|yaml|yml|json|txt|js|ts)$/i.test(file)
IsTextFile(file) == \E ext \in TextExtensions : EndsWith(LowerCase(file), ext)

Ellipsis == <<".", ".", ".">>

\* matches[0].slice(0, 20) + '...'
Truncated(text) ==
    SubSeq(text, 1, IF Len(text) < SliceLen THEN Len(text) ELSE SliceLen) \o Ellipsis

Leak(file, lineNo, text) == [file |-> file, line |-> lineNo, match |-> Truncated(text)]

\* the mutation: one record for every match on the line
RECURSIVE LineLeaksPerMatch(_, _, _, _)
LineLeaksPerMatch(file, lineNo, line, p) ==
    IF p > Len(secretPatterns) THEN <<>>
    ELSE LET matches == MatchAll(secretPatterns[p], line)
         IN  [k \in 1..Len(matches) |-> Leak(file, lineNo, matches[k])]
             \o LineLeaksPerMatch(file, lineNo, line, p + 1)

\* the records pushed for one line: the patterns from p on, one after another
RECURSIVE LineLeaks(_, _, _, _)
LineLeaks(file, lineNo, line, p) ==
    IF p > Len(secretPatterns) THEN <<>>
    ELSE LET matches == MatchAll(secretPatterns[p], line)
         IN  (IF matches # <<>> THEN <<Leak(file, lineNo, matches[1])>> ELSE <<>>)
             \o LineLeaks(file, lineNo, line, p + 1)

RECURSIVE FileLeaks(_, _, _)
FileLeaks(file, lines, i) ==
    IF i > Len(lines) THEN <<>>
    ELSE LineLeaks(file, i, lines[i], 1) \o FileLeaks(file, lines, i + 1)

\* content.split('\n') of the file, when it can be read
RECURSIVE checkForSecrets(_, _, _)
checkForSecrets(w, files, i) ==
    IF i > Len(files) THEN <<>>
    ELSE (IF IsTextFile(files[i]) /\ IsFile(w, files[i])
          THEN FileLeaks(files[i], w.files[Resolve(files[i])].lines, 1)
          ELSE <<>>)
         \o checkForSecrets(w, files, i + 1)

-----------------------------------------------------------------------------
(* Workspaces *)

Rep(c, n) == [i \in 1..n |-> c]

Line_title    == <<"#", " ", "S", "o", "u", "l">>
Line_clean    == <<"S", "e", "t", " ", "y", "o", "u", "r", " ", "A", "P", "I", "_", "K", "E", "Y", " ", "i", "n", " ", ".", "e", "n", "v", " ", "f", "i", "l", "e">>
\* API_KEY = "sk-<32 characters>": the generic pattern and the OpenAI one
Line_apiKey   == <<"A", "P", "I", "_", "K", "E", "Y", " ", "=", " ", "\"", "s", "k", "-">> \o Rep("a", 32) \o <<"\"">>
\* token: ghp_<36 characters>: the generic pattern and the GitHub one
Line_ghToken  == <<"t", "o", "k", "e", "n", ":", " ", "g", "h", "p", "_">> \o Rep("x", 36)
\* the shortest text the generic pattern accepts
Line_authMin  == <<"a", "u", "t", "h", "=">> \o Rep("z", 20)
Line_authShort == <<"a", "u", "t", "h", "=">> \o Rep("z", 19)
\* two OpenAI-style keys on one line
Line_twoKeys  == <<"s", "k", "-">> \o Rep("a", 32) \o <<" ">> \o <<"s", "k", "-">> \o Rep("b", 40)
Line_skShort  == <<"s", "k", "-">> \o Rep("a", 31)
Line_xai      == <<"k", "e", "y", " ", "x", "a", "i", "-">> \o Rep("Q", 32)
\* a Google key followed by further key characters
Line_google   == <<"A", "I", "z", "a">> \o Rep("g", 38)

Line_name     == <<"N", "a", "m", "e", ":", " ", "J">>
Line_timezone == <<"T", "i", "m", "e", "z", "o", "n", "e", ":", " ", "E">>
Line_location == <<"L", "o", "c", "a", "t", "i", "o", "n", ":", " ", "M">>
Line_likes    == <<"L", "i", "k", "e", "s", " ", "t", "e", "a">>

File(lines) == [size |-> Len(lines) + 1, lines |-> lines]

CleanText  == File(<<Line_title>>)
NearText   == File(<<Line_clean, Line_skShort, Line_authShort>>)
SecretText == File(<<Line_title, Line_apiKey, Line_twoKeys, Line_authMin>>)
VendorText == File(<<Line_ghToken, Line_xai, Line_google>>)
UserText   == File(<<Line_title, Line_name, Line_timezone, Line_location, Line_likes>>)

\* the files every workspace of the universe holds, besides the manifest
BaseFiles ==
    (Str_SOUL :> CleanText) @@ (Str_IDENTITY :> NearText)
        @@ (Str_env :> SecretText) @@ (Str_notes :> CleanText)
        @@ (Str_avatar :> CleanText) @@ (Str_skillMd :> CleanText)
        @@ (Str_skillLog :> CleanText) @@ (Str_skillHid :> CleanText)
        @@ (Str_mcpCfg :> CleanText)

WithManifest == (Str_porter :> File(<<Line_title>>))

WithUser == (Str_USER :> UserText)

NoFiles == [f \in {} |-> CleanText]

\* where a secret sits: nowhere in the shipped files, in text files, or only
\* in a file whose extension the secret scan skips
SecretPlacements ==
    {NoFiles,
     (Str_SOUL :> SecretText) @@ (Str_mcpCfg :> VendorText),
     (Str_avatar :> SecretText)}

NoArchives == {}

Workspace(files) == [files |-> files, archives |-> NoArchives]

Workspaces ==
    {Workspace(BaseFiles)}
    \cup {Workspace(secrets @@ user @@ WithManifest @@ BaseFiles) :
            secrets \in SecretPlacements, user \in {NoFiles, WithUser}}

-----------------------------------------------------------------------------
(* exportAgent *)

Str_noManifest == "No porter.yaml found"
Str_leak       == "Potential secrets detected in "

Str_yourName     == <<"{", "{", "Y", "O", "U", "R", "_", "N", "A", "M", "E", "}", "}">>
Str_yourTimezone == <<"{", "{", "Y", "O", "U", "R", "_", "T", "I", "M", "E", "Z", "O", "N", "E", "}", "}">>
Str_yourLocation == <<"{", "{", "Y", "O", "U", "R", "_", "L", "O", "C", "A", "T", "I", "O", "N", "}", "}">>

\* the personal-data fields of USER.md and the placeholder of each
PersonalFields ==
    <<[label |-> <<"N", "a", "m", "e", ":", " ">>, placeholder |-> Str_yourName],
      [label |-> <<"T", "i", "m", "e", "z", "o", "n", "e", ":", " ">>, placeholder |-> Str_yourTimezone],
      [label |-> <<"L", "o", "c", "a", "t", "i", "o", "n", ":", " ">>, placeholder |-> Str_yourLocation]>>

\* a line of USER.md as the template holds it
RedactLine(line) ==
    IF \E i \in 1..Len(PersonalFields) : StartsWith(line, PersonalFields[i].label)
    THEN LET i == CHOOSE k \in 1..Len(PersonalFields) :
                      StartsWith(line, PersonalFields[k].label)
         IN  PersonalFields[i].label \o PersonalFields[i].placeholder
    ELSE line

\* USER.md.template synthesized from USER.md
RedactUserMd(content) == File([i \in 1..Len(content.lines) |-> RedactLine(content.lines[i])])

ExportFailure(errors) == [success |-> FALSE, files |-> <<>>, errors |-> errors]

LeakErrors(found) == [i \in 1..Len(found) |-> Msg(Str_leak, <<found[i].file, found[i].line>>)]

\* <name>-<version>.tar.gz
ArchiveName(m) == m.name \o <<"-">> \o m.version \o Str_targz

\* the mutation: a dry run writes the archive all the same
WriteArchiveAlways(w, m, files, options) ==
    [w EXCEPT !.archives = @ \cup {[path |-> ArchiveName(m), files |-> files]}]

\* the archive of the resolved file set, unless this is a dry run
WriteArchive(w, m, files, options) ==
    IF options.dryRun THEN w
    ELSE [w EXCEPT !.archives = @ \cup {[path |-> ArchiveName(m), files |-> files]}]

\* steps 5 to 7: template, dry run, archive
ShipFiles(w, m, scanned, options) ==
    LET hasUser  == Str_USER \in DOMAIN w.files
        w1       == IF hasUser
                    THEN [w EXCEPT !.files =
                             (Str_template :> RedactUserMd(w.files[Str_USER])) @@ @]
                    ELSE w
        files    == IF hasUser /\ Str_template \notin SeqToSet(scanned.files)
                    THEN Append(scanned.files, Str_template) ELSE scanned.files
        done     == [success |-> TRUE, files |-> files]
    IN  [ws     |-> WriteArchive(w1, m, files, options),
         result |-> IF options.dryRun THEN done
                    ELSE [outputPath |-> ArchiveName(m)] @@ done]

exportAgent(w, m, options) ==
    IF Str_porter \notin DOMAIN w.files
    THEN [ws |-> w, result |-> ExportFailure(<<Msg(Str_noManifest, <<>>)>>)]
    ELSE LET validation == validateManifest(m)
             scanned    == scanWorkspace(w, m)
             found      == checkForSecrets(w, scanned.files, 1)
         IN  IF ~validation.valid
             THEN [ws |-> w, result |-> ExportFailure(validation.errors)]
             ELSE IF found # <<>> /\ ~options.force
             THEN [ws |-> w, result |-> ExportFailure(LeakErrors(found))]
             ELSE ShipFiles(w, m, scanned, options)

-----------------------------------------------------------------------------
(* The state machine of one workspace: validate and export commands *)

Str_seed == <<"s", "e", "e", "d", ".", "m", "d">>

\* what a manifest declares for the bundled-skill, asset, mcp and seed rules:
\* nothing; assets that the default exclusions cover; every rule, some files
\* reached twice; paths that do not exist
RuleChoices ==
    {[f \in {} |-> <<>>],
     [assets |-> <<Str_env, Str_memoryDir>>],
     [skills |-> [bundled |-> <<[path |-> Str_skillDir]>>],
      assets |-> <<Str_starMd, Str_avatarDir>>,
      mcp    |-> <<[name |-> "m", config |-> Str_mcpCfg], [name |-> "n"]>>,
      seeds  |-> [memory |-> <<Str_notes, Str_SOUL>>]],
     [skills |-> [bundled |-> <<[path |-> Str_MISSING]>>],
      mcp    |-> <<[name |-> "m", config |-> Str_MISSING]>>,
      seeds  |-> [memory |-> <<Str_seed>>]]}

RequiredPart ==
    [name |-> Str_a, version |-> Str_1_0_0, description |-> Str_desc,
     engine |-> [clawdbot |-> Str_engine], env |-> [required |-> <<"K1">>]]

\* the manifests of the workspace: the required fields, the context entries,
\* the other rules and the exclude list; one manifest with an invalid name; and
\* one whose seed paths leave the workspace
ExportManifests ==
    {RequiredPart @@ c @@ r @@ x :
        c \in {[context |-> [soul |-> Str_SOUL] @@ i] :
                 i \in Optional("identity", {Str_IDENTITY, Str_MISSING, Str_dotUSER})},
        r \in RuleChoices,
        x \in Optional("exclude", {<<Str_starYaml>>, <<Str_skillDir>>})}
    \cup {[name |-> Str_Bad, context |-> [soul |-> Str_SOUL]] @@ RequiredPart}
    \cup {[context |-> [soul |-> Str_SOUL],
           seeds |-> [memory |-> <<Str_escape, Str_abs>>]] @@ RequiredPart}

InitExport ==
    /\ ws \in Workspaces
    /\ vm \in ExportManifests
    /\ vres = None
    /\ scan = None
    /\ leaks = None
    /\ xcall = None
    /\ xres = None
    /\ procs = None
    /\ pre = None
    /\ fs = CleanFs
    /\ call = None
    /\ result = None
    /\ ncalls = 0

\* validateCommand: load the manifest (the command stops when there is
\* none), validate, scan, check for secrets; run once per behaviour
ValidateCommand ==
    /\ scan = None
    /\ Str_porter \in DOMAIN ws.files
    /\ vres' = validateManifest(vm)
    /\ scan' = scanWorkspace(ws, vm)
    /\ leaks' = checkForSecrets(ws, scan'.files, 1)
    /\ UNCHANGED <<ws, vm, xcall, xres, pre, fs, call, result, ncalls, procs>>

\* exportCommand: exportAgent with the options of the command line; run once
\* per behaviour
ExportAgentCall ==
    /\ xres = None
    /\ \E force \in BOOLEAN, dryRun \in BOOLEAN :
         LET options == [force |-> force, dryRun |-> dryRun]
             r       == exportAgent(ws, vm, options)
         IN  /\ ws' = r.ws
             /\ xres' = r.result
             /\ xcall' = options
             /\ pre' = ws
    /\ UNCHANGED <<vm, vres, scan, leaks, fs, call, result, ncalls, procs>>

NextExport == ValidateCommand \/ ExportAgentCall

SpecExport == InitExport /\ [][NextExport]_vars

-----------------------------------------------------------------------------
(* C13..C16: scanWorkspace *)

Scanned == scan # None

\* the path names a file that some exclusion pattern matches
MatchedByExclusion(m, file) == IsExcluded(ExcludePatterns(m), file)

\* the path names the USER.md of the workspace root
NamesUserMd(file) == Resolve(file) = Str_USER

\* C13: no path in the files of scanWorkspace is matched by a pattern of
\* DEFAULT_EXCLUDES or of manifest.exclude, whichever rule introduced it, and
\* no path of the result names the workspace's USER.md.
C13_ExclusionsAlwaysWin ==
    Scanned =>
        \A i \in 1..Len(scan.files) :
            /\ ~MatchedByExclusion(vm, scan.files[i])
            /\ ~NamesUserMd(scan.files[i])

\* C14: whatever the manifest declares, manifest.exclude included, the files
\* of scanWorkspace contain the manifest file 'porter.yaml'.
C14_ManifestAlwaysScanned == Scanned => Str_porter \in SeqToSet(scan.files)

\* C15: totalSize is the sum of the on-disk sizes of the paths of the returned
\* files list, each path once, a path that cannot be read adding zero, also
\* when a file is reached by more than one rule.
C15_TotalSizeOfReturnedFiles == Scanned => scan.totalSize = SumSizes(ws, scan.files, 1)

\* the candidate lists of the rules, in the order the scan applies them
RuleOutputs(w, m) ==
    <<<<Str_porter>>, ContextFiles(w, m), BundledFiles(w, m), AssetFiles(w, m),
      McpFiles(w, m), SeedFiles(m)>>

\* the first rule that yields the path
RuleRank(w, m, file) ==
    CHOOSE r \in 1..Len(RuleOutputs(w, m)) :
        /\ file \in SeqToSet(RuleOutputs(w, m)[r])
        /\ \A q \in 1..(r - 1) : file \notin SeqToSet(RuleOutputs(w, m)[q])

\* C16: the files list of scanWorkspace holds no path twice, and its paths
\* stand in the order of the rules that first yield them: the manifest, context
\* entries, bundled-skill files, asset matches, mcp config templates, seeds.
C16_UniqueInFirstSeenOrder ==
    Scanned =>
        \A i, j \in 1..Len(scan.files) :
            i < j =>
                /\ scan.files[i] # scan.files[j]
                /\ RuleRank(ws, vm, scan.files[i]) <= RuleRank(ws, vm, scan.files[j])

C16_Witness ==
    /\ Scanned
    /\ Len(FilterExcluded(vm, Candidates(ws, vm))) > Len(scan.files)
    /\ Cardinality({RuleRank(ws, vm, scan.files[i]) : i \in 1..Len(scan.files)}) >= 5

-----------------------------------------------------------------------------
(* C17..C19: exportAgent *)

Exported == xres # None

ManifestLoads == Str_porter \in DOMAIN pre.files

\* the file set the export resolves and the leak records of its secret scan
ResolvedFiles == scanWorkspace(pre, vm).files

FoundLeaks == checkForSecrets(pre, ResolvedFiles, 1)

\* the archive this call wrote, if any
ArchivesWritten == ws.archives \ pre.archives

ShouldWriteArchive ==
    /\ ManifestLoads
    /\ validateManifest(vm).valid
    /\ FoundLeaks = <<>> \/ xcall.force
    /\ ~xcall.dryRun

\* C17: exportAgent writes an archive and returns its outputPath exactly when
\* the manifest loads, validation reports no error, the secret scan finds no
\* leak or force is set, and dryRun is not set; otherwise no archive is created
\* and outputPath is absent; a missing manifest is the only thing reported and
\* nothing is written.
C17_ArchiveOnlyWhenAllGatesPass ==
    Exported =>
        /\ ShouldWriteArchive =>
              /\ xres.success
              /\ Has(xres, "outputPath")
              /\ \E archive \in ArchivesWritten : archive.path = xres.outputPath
        /\ ~ShouldWriteArchive =>
              /\ ~Has(xres, "outputPath")
              /\ ArchivesWritten = {}
        /\ ~ManifestLoads =>
              /\ ~xres.success
              /\ xres.errors = <<Msg(Str_noManifest, <<>>)>>
              /\ ws = pre

C17_Witness ==
    /\ Exported
    /\ FoundLeaks # <<>>
    /\ xcall.force
    /\ xres.success
    /\ Has(xres, "outputPath")
    /\ ArchivesWritten # {}

\* the (file, line, pattern) triples of the given files of the workspace at
\* which the pattern matches the line
SecretTriples(w, files) ==
    LET LinesOf(file) == IF IsFile(w, file) THEN w.files[Resolve(file)].lines ELSE <<>>
        Triples(file) ==
            {t \in {file} \X (1..Len(LinesOf(file))) \X (1..Len(secretPatterns)) :
                MatchAll(secretPatterns[t[3]], LinesOf(file)[t[2]]) # <<>>}
    IN  UNION {Triples(file) : file \in SeqToSet(files)}

\* the extension of the file is one of md, yaml, yml, json, txt, js, ts
HasTextExtension(file) ==
    \E ext \in TextExtensions :
        Len(file) >= Len(ext)
        /\ LowerCase(SubSeq(file, Len(file) - Len(ext) + 1, Len(file))) = ext

TextFilesOf(files) == SelectSeq(files, HasTextExtension)

ExportGated == Exported /\ ManifestLoads /\ validateManifest(vm).valid

\* what the claim says of an export whose file set holds the given triples
SecretsBlockUnlessForced(triples) ==
    /\ ~xcall.force =>
          /\ ~xres.success
          /\ Len(xres.errors) = Cardinality(triples)
          /\ \A t \in triples :
                \E i \in 1..Len(xres.errors) :
                    xres.errors[i] = Msg(Str_leak, <<t[1], t[2]>>)
          /\ ArchivesWritten = {}
    /\ (xcall.force /\ ~xcall.dryRun) =>
          /\ xres.success
          /\ ArchivesWritten # {}

\* C18 as stated: whenever the resolved file set holds a file with a line
\* that matches a secret pattern, exportAgent without force fails with one
\* secret error per leak and writes no archive, and with force it succeeds and
\* the archive exists.
C18_AnySecretBlocksExport ==
    (ExportGated /\ SecretTriples(pre, ResolvedFiles) # {}) =>
        SecretsBlockUnlessForced(SecretTriples(pre, ResolvedFiles))

\* C18 amended: whenever the resolved file set holds a file with one of the
\* extensions the secret scan reads (md, yaml, yml, json, txt, js, ts) and a
\* line of it matches a secret pattern, exportAgent without force fails with
\* one secret error per leak of those files and writes no archive, and with
\* force it succeeds and, unless it is a dry run, the archive exists.
C18_SecretInTextFileBlocksExport ==
    (ExportGated /\ SecretTriples(pre, TextFilesOf(ResolvedFiles)) # {}) =>
        SecretsBlockUnlessForced(SecretTriples(pre, TextFilesOf(ResolvedFiles)))

C18_Witness ==
    /\ ExportGated
    /\ Cardinality(SecretTriples(pre, TextFilesOf(ResolvedFiles))) >= 2
    /\ ~xcall.force
    /\ ~xres.success

\* the line is a personal-data field of USER.md
IsPersonalLine(line) ==
    \E i \in 1..Len(PersonalFields) : StartsWith(line, PersonalFields[i].label)

Placeholders == {PersonalFields[i].placeholder : i \in 1..Len(PersonalFields)}

\* the line ends with a placeholder token
EndsWithPlaceholder(line) == \E token \in Placeholders : EndsWith(line, token)

\* C19: after a successful export of a workspace that holds USER.md, the
\* result's files contain USER.md.template and no path that names USER.md, and
\* the USER.md.template written to the workspace has a placeholder token in
\* every personal-data line of the original and none of the original's
\* personal-data lines.
C19_TemplateShippedNotUserMd ==
    (Exported /\ xres.success /\ Str_USER \in DOMAIN pre.files) =>
        /\ Str_template \in SeqToSet(xres.files)
        /\ \A i \in 1..Len(xres.files) : ~NamesUserMd(xres.files[i])
        /\ Str_template \in DOMAIN ws.files
        /\ LET original == pre.files[Str_USER].lines
               template == ws.files[Str_template].lines
           IN  /\ Len(template) = Len(original)
               /\ \A i \in 1..Len(original) :
                     IF IsPersonalLine(original[i])
                     THEN EndsWithPlaceholder(template[i]) /\ template[i] # original[i]
                     ELSE template[i] = original[i]

-----------------------------------------------------------------------------
(* C20: checkForSecrets *)

Checked == leaks # None

\* the files of the scan that checkForSecrets reads
InspectedFiles == TextFilesOf(scan.files)

\* the first text the pattern matches on the line
FirstMatch(t) == MatchAll(secretPatterns[t[3]], ws.files[Resolve(t[1])].lines[t[2]])[1]

\* the record the claim describes for a (file, line, pattern) triple
ExpectedRecord(t) ==
    [file |-> t[1], line |-> t[2],
     match |-> SubSeq(FirstMatch(t), 1, SliceLen) \o Ellipsis]

\* C20: for the files it reads, checkForSecrets yields exactly one record per
\* (file, line, pattern) that matches, however often the pattern matches on
\* the line; the match field of the record is the first 20 characters of the
\* matched text followed by '...', and the matched text is longer than that.
C20_OneTruncatedRecordPerMatch ==
    Checked =>
        LET triples == SecretTriples(ws, InspectedFiles)
        IN  /\ Len(leaks) = Cardinality(triples)
            /\ \A t \in triples :
                  /\ Len(FirstMatch(t)) > SliceLen
                  /\ Cardinality({i \in 1..Len(leaks) : leaks[i] = ExpectedRecord(t)}) = 1
            /\ \A i \in 1..Len(leaks) : \E t \in triples : leaks[i] = ExpectedRecord(t)

C20_Witness ==
    /\ Checked
    /\ \E t \in SecretTriples(ws, InspectedFiles) :
          Len(MatchAll(secretPatterns[t[3]], ws.files[Resolve(t[1])].lines[t[2]])) >= 2
    /\ \E t \in SecretTriples(ws, InspectedFiles) : Len(FirstMatch(t)) = 25
    /\ Len(leaks) >= 8

-----------------------------------------------------------------------------
(* Two concurrent archive imports into one target root.  importFromLocal is *)
(* an async function: between two awaits another invocation may run.  Each  *)
(* action below is the code between awaits of one invocation.               *)

Procs == {1, 2}

\* the archives the two invocations import: well-formed, one top-level entry
RaceSources == {Src_tgzA, Src_tgzB}

\* an invocation that has not started
IdleProc ==
    [pc |-> "idle", source |-> <<>>,
     options |-> [force |-> FALSE, skipEnv |-> FALSE, skipSkills |-> FALSE],
     root |-> "", manifest |-> ManifestB, listing |-> <<>>, next |-> 1,
     result |-> None,
     staged |-> FALSE, sawOther |-> FALSE, lostStaging |-> FALSE]

\* extractedPath = path.join(tempDir, entries[0]): the tree found there now
StagedTree(f, root) ==
    IF f.temp.exists /\ root \in DOMAIN f.temp.roots THEN f.temp.roots[root] ELSE EmptyTree

StagedExists(f, root) == f.temp.exists /\ root \in DOMAIN f.temp.roots

\* the invocation still reads from its extractedPath
NeedsStaging(pr) ==
    \/ pr.pc \in {"extracted", "listed", "loaded", "checked"}
    \/ pr.pc = "copying" /\ pr.next <= Len(pr.listing)

\* bookkeeping when invocation p removes the staging directory: nothing is
\* staged any more, and every other invocation that still reads from it lost it
AfterRemoval(ps, p) ==
    [q \in Procs |->
        [ps[q] EXCEPT !.staged = FALSE,
                      !.lostStaging = @ \/ (q # p /\ ps[q].staged /\ NeedsStaging(ps[q]))]]

ExtractError == Msg("Failed to extract archive: ", Str_err)

RaceUnchanged == UNCHANGED <<vm, vres, pre, call, result, ncalls, ws, scan, leaks, xcall, xres>>

\* importAgent(source, options) up to `await fs.ensureDir(tempDir)`
EnsureStaging(p) ==
    /\ procs[p].pc = "idle"
    /\ \E source \in RaceSources, force \in BOOLEAN :
         procs' = [procs EXCEPT ![p].pc = "ensured", ![p].source = source,
                                ![p].options.force = force]
    /\ fs' = [fs EXCEPT !.temp = IF fs.temp.exists THEN fs.temp
                                 ELSE [exists |-> TRUE, roots |-> NoRoots]]
    /\ RaceUnchanged

\* `await tar.extract({file, cwd: tempDir})`: unpacks into whatever the staging
\* directory holds; a cwd that no longer exists makes it reject, and the catch
\* block removes the directory and returns
Extract(p) ==
    /\ procs[p].pc = "ensured"
    /\ IF fs.temp.exists
       THEN /\ fs' = [fs EXCEPT !.temp = ExtractInto(fs.temp, Disk(procs[p].source).roots)]
            /\ procs' = [procs EXCEPT ![p].pc = "extracted", ![p].staged = TRUE]
       ELSE /\ fs' = fs
            /\ procs' = [procs EXCEPT ![p].pc = "done",
                                      ![p].result = Failure(<<ExtractError>>)]
    /\ RaceUnchanged

\* `await fs.readdir(tempDir)` and the single-entry check
ListStaging(p) ==
    /\ procs[p].pc = "extracted"
    /\ IF ~fs.temp.exists
       THEN procs' = [procs EXCEPT ![p].pc = "done",
                                   ![p].result = Failure(<<ExtractError>>)]
       ELSE LET entries == DOMAIN fs.temp.roots
                saw     == \E q \in Procs \ {p} :
                              /\ procs[q].staged
                              /\ DOMAIN Disk(procs[q].source).roots
                                    # DOMAIN Disk(procs[p].source).roots
            IN  IF Cardinality(entries) # 1
                THEN procs' = [procs EXCEPT ![p].pc = "done", ![p].sawOther = saw,
                                  ![p].result = Failure(<<InvalidArchiveError>>)]
                ELSE procs' = [procs EXCEPT ![p].pc = "listed", ![p].sawOther = saw,
                                  ![p].root = CHOOSE r \in entries : TRUE]
    /\ fs' = fs
    /\ RaceUnchanged

\* `await loadManifest(extractedPath)` and validateManifest
LoadAndValidate(p) ==
    /\ procs[p].pc = "listed"
    /\ LET loaded == loadManifest(StagedTree(fs, procs[p].root))
       IN  procs' =
             IF loaded.throws
             THEN [procs EXCEPT ![p].pc = "done", ![p].result = Thrown]
             ELSE IF loaded.null
             THEN [procs EXCEPT ![p].pc = "done",
                                ![p].result = Failure(<<NoManifestError>>)]
             ELSE IF ~validateManifest(loaded.doc).valid
             THEN [procs EXCEPT ![p].pc = "done",
                                ![p].result = Failure(validateManifest(loaded.doc).errors)]
             ELSE [procs EXCEPT ![p].pc = "loaded", ![p].manifest = loaded.doc]
    /\ fs' = fs
    /\ RaceUnchanged

\* `(await fs.pathExists(agentDir)) && !options.force`
CheckCollision(p) ==
    /\ procs[p].pc = "loaded"
    /\ procs' =
         IF Collides(fs, procs[p].manifest.name, procs[p].options)
         THEN [procs EXCEPT ![p].pc = "done",
                  ![p].result = Failure(<<CollisionError(procs[p].manifest.name)>>)]
         ELSE [procs EXCEPT ![p].pc = "checked"]
    /\ fs' = fs
    /\ RaceUnchanged

\* `await fs.ensureDir(agentDir)` and the recursive readdir of extractedPath,
\* which rejects when the directory is gone
ListPackage(p) ==
    /\ procs[p].pc = "checked"
    /\ fs' = [fs EXCEPT !.agents[procs[p].manifest.name].exists = TRUE]
    /\ procs' =
         IF StagedExists(fs, procs[p].root)
         THEN [procs EXCEPT ![p].pc = "copying", ![p].next = 1,
                            ![p].listing = InTree(StagedTree(fs, procs[p].root))]
         ELSE [procs EXCEPT ![p].pc = "done", ![p].result = Thrown]
    /\ RaceUnchanged

\* one turn of the copy loop: `await fs.copy(srcPath, destPath)` rejects when
\* the source file is gone
CopyFile(p) ==
    /\ procs[p].pc = "copying"
    /\ procs[p].next <= Len(procs[p].listing)
    /\ LET file == procs[p].listing[procs[p].next]
           tree == StagedTree(fs, procs[p].root)
           name == procs[p].manifest.name
       IN  IF file \in DOMAIN tree
           THEN /\ fs' = [fs EXCEPT !.agents[name] =
                            [exists |-> TRUE,
                             files  |-> Overlay(fs.agents[name].files,
                                                [x \in {file} |-> tree[file]])]]
                /\ procs' = [procs EXCEPT ![p].next = @ + 1]
           ELSE /\ fs' = fs
                /\ procs' = [procs EXCEPT ![p].pc = "done", ![p].result = Thrown]
    /\ RaceUnchanged

\* after the loop: USER.md from the template, missing env, skills, removal of
\* the staging directory, the success result
Finish(p) ==
    /\ procs[p].pc = "copying"
    /\ procs[p].next > Len(procs[p].listing)
    /\ LET name == procs[p].manifest.name
           done == [procs EXCEPT ![p].pc = "done",
                       ![p].result = Success(AgentDir(name),
                                         MissingEnv(procs[p].manifest, procs[p].options, EnvAll),
                                         InstalledSkills(procs[p].manifest, procs[p].options))]
       IN  /\ fs' = CleanupTemp([fs EXCEPT !.agents[name].files = ApplyTemplate(@)])
           /\ procs' = IF fs.temp.exists THEN AfterRemoval(done, p) ELSE done
    /\ RaceUnchanged

InitRace ==
    /\ procs = [p \in Procs |-> IdleProc]
    /\ fs = CleanFs
    /\ vm = ManifestB
    /\ vres = None
    /\ pre = None
    /\ call = None
    /\ result = None
    /\ ncalls = 0
    /\ ws = None
    /\ scan = None
    /\ leaks = None
    /\ xcall = None
    /\ xres = None

NextRace ==
    \E p \in Procs :
        \/ EnsureStaging(p)
        \/ Extract(p)
        \/ ListStaging(p)
        \/ LoadAndValidate(p)
        \/ CheckCollision(p)
        \/ ListPackage(p)
        \/ CopyFile(p)
        \/ Finish(p)

SpecRace == InitRace /\ [][NextRace]_vars

-----------------------------------------------------------------------------
(* C21 *)

Racing == procs # None

\* the invocation imports an archive with exactly one top-level entry
WellFormedArchive(pr) ==
    /\ Disk(pr.source).kind = "archive"
    /\ Cardinality(DOMAIN Disk(pr.source).roots) = 1

\* the invocation ended without installing: it threw or returned a failure
EndedWithoutSuccess(pr) ==
    pr.pc = "done" /\ (pr.result.threw \/ ~pr.result.success)

\* C21: two archive imports into one target root use the same staging
\* directory <target>/.porter-temp and are not isolated.  An import that lists
\* the staging directory while the other import's extracted root is in it
\* fails the single-entry check, although its own archive has one root; an
\* import whose staging directory the other import removed before its copy
\* completed does not succeed.
C21_StagingSharedNotIsolated ==
    Racing =>
        \A p \in Procs :
            /\ procs[p].sawOther =>
                 procs[p].result = Failure(<<InvalidArchiveError>>)
            /\ (procs[p].lostStaging /\ procs[p].pc = "done") =>
                 EndedWithoutSuccess(procs[p])

\* an import of a well-formed single-root archive has failed the single-entry
\* check because the other import's root was staged
C21_Witness ==
    /\ Racing
    /\ \E p \in Procs :
         /\ procs[p].pc = "done"
         /\ WellFormedArchive(procs[p])
         /\ procs[p].sawOther
         /\ procs[p].result = Failure(<<InvalidArchiveError>>)

-----------------------------------------------------------------------------
(* The exclusion filter of scanWorkspace applied to one pattern and one       *)
(* candidate path                                                              *)

\* exclusion patterns: the defaults and patterns a manifest may add
MatchPatterns ==
    SeqToSet(DEFAULT_EXCLUDES) \cup
    {<<"s", "k", "i", "l", "l", "s", "/", "s">>,
     <<"*", ".", "y", "a", "m", "l">>,
     <<"a", "*", "b">>,
     <<"*">>,
     <<"m", "e", "m", "o", "r", "y">>}

\* candidate paths as the collection rules push them
MatchCandidates ==
    {<<".", "e", "n", "v">>,
     <<".", "e", "n", "v", "r", "c">>,
     <<".", "e", "n", "v", ".", "l", "o", "c", "a", "l">>,
     <<"U", "S", "E", "R", ".", "m", "d">>,
     <<"U", "S", "E", "R", ".", "m", "d", ".", "t", "e", "m", "p", "l", "a", "t", "e">>,
     <<"m", "e", "m", "o", "r", "y", "/", "n", "o", "t", "e", "s", ".", "m", "d">>,
     <<"m", "e", "m", "o", "r", "y">>,
     <<"m", "e", "m", "o", "r", "y", "x", "/", "n", ".", "m", "d">>,
     <<"a", "/", "b", "/", "c", ".", "l", "o", "g">>,
     <<"c", "a", "t", "a", "l", "o", "g">>,
     <<"d", "o", "c", "s", "/", "c", "h", "a", "n", "g", "e", "l", "o", "g">>,
     <<"s", "k", "i", "l", "l", "s", "/", "s", "/", "x", ".", "m", "d">>,
     <<"s", "k", "i", "l", "l", "s", "/", "s", "x", ".", "m", "d">>,
     <<"x", ".", "s", "e", "c", "r", "e", "t">>,
     <<"a", ".", "l", "o", "g", "/", "x">>,
     <<".", "g", "i", "t", "/", "H", "E", "A", "D">>,
     <<"n", "o", "d", "e", "_", "m", "o", "d", "u", "l", "e", "s", "/", "m", "/", "i", ".", "j", "s">>,
     <<".", "D", "S", "_", "S", "t", "o", "r", "e">>,
     <<"S", "O", "U", "L", ".", "m", "d">>,
     <<"a", "x", "b">>,
     <<"a", "b">>,
     <<"a", "/", "b">>}

InitMatch ==
    /\ xcall \in {[pattern |-> pattern, file |-> file] :
                    pattern \in MatchPatterns, file \in MatchCandidates}
    /\ xres = None
    /\ procs = None
    /\ fs = CleanFs
    /\ vm = ManifestB
    /\ vres = None
    /\ pre = None
    /\ call = None
    /\ result = None
    /\ ncalls = 0
    /\ ws = None
    /\ scan = None
    /\ leaks = None

\* the callback of excludePatterns.some for one pattern and one file
MatchPattern ==
    /\ xres = None
    /\ xres' = [excluded |-> ExcludeMatch(xcall.pattern, xcall.file)]
    /\ UNCHANGED <<xcall, procs, fs, vm, vres, pre, call, result, ncalls, ws, scan, leaks>>

NextMatch == MatchPattern

SpecMatch == InitMatch /\ [][NextMatch]_vars

-----------------------------------------------------------------------------
(* C22, C23 *)

Matched == xcall # None /\ xres # None /\ "excluded" \in DOMAIN xres

HasWildcard(pattern) == \E i \in 1..Len(pattern) : pattern[i] = "*"

\* the candidate is the pattern itself or lies beneath it taken as a directory
EqualOrBeneath(pattern, file) ==
    \/ file = pattern
    \/ Len(pattern) >= 1 /\
       StartsWith(file, IF pattern[Len(pattern)] = "/" THEN pattern
                        ELSE pattern \o <<"/">>)

\* C22: a pattern without '*' excludes a candidate exactly when the candidate
\* equals the pattern or lies beneath the pattern taken as a directory prefix;
\* a candidate that only begins with the same characters is not excluded.
C22_LiteralPatternExactOrBeneath ==
    (Matched /\ ~HasWildcard(xcall.pattern)) =>
        (xres.excluded <=> EqualOrBeneath(xcall.pattern, xcall.file))

\* text[j..] matches pat[i..] as a whole, '*' standing for any string and every
\* other character for itself
RECURSIVE WholeMatch(_, _, _, _)
WholeMatch(pat, i, text, j) ==
    IF i > Len(pat) THEN j > Len(text)
    ELSE IF pat[i] = "*"
         THEN \E k \in j..(Len(text) + 1) : WholeMatch(pat, i + 1, text, k)
    ELSE j <= Len(text) /\ pat[i] = text[j] /\ WholeMatch(pat, i + 1, text, j + 1)

\* C23: a pattern with '*' excludes a candidate exactly when its full relative
\* path or its base name matches the whole pattern, each '*' standing for any
\* string and every other character of the pattern matching only itself.
C23_WildcardMatchesWholePattern ==
    (Matched /\ HasWildcard(xcall.pattern)) =>
        (xres.excluded <=> \/ WholeMatch(xcall.pattern, 1, xcall.file, 1)
                           \/ WholeMatch(xcall.pattern, 1, Basename(xcall.file), 1))

-----------------------------------------------------------------------------
(* C24 *)

\* how many entries of q equal x
Count(q, x) == Cardinality({i \in 1..Len(q) : q[i] = x})

\* the three rules that check existence: what each declares, and its warning
CheckedRules ==
    {[paths |-> ContextPaths(vm, 1),   text |-> "Context file not found: "],
     [paths |-> BundledSkillPaths(vm), text |-> "Bundled skill not found: "],
     [paths |-> McpConfigs(vm),        text |-> "MCP config template not found: "]}

\* the declarations of a rule that name nothing on disk
MissingOf(rule) ==
    LET Missing(p) == ~PathExists(ws, p) IN SelectSeq(rule.paths, Missing)

\* the paths the rules without an existence check may add
Unchecked == SeqToSet(SeedFiles(vm)) \cup {Str_porter}

\* C24: for each declared context file, bundled-skill directory or mcp config
\* template that does not exist on disk, scanWorkspace adds exactly one warning
\* naming it and leaves it out of files, and still returns a result; every path
\* these rules contribute to files existed on disk at scan time.
C24_MissingDeclaredWarnedAndLeftOut ==
    Scanned =>
        /\ \A rule \in CheckedRules :
             \A i \in 1..Len(MissingOf(rule)) :
                LET p == MissingOf(rule)[i]
                IN  /\ Count(scan.warnings, Msg(rule.text, p)) = Count(MissingOf(rule), p)
                    /\ p \in SeqToSet(scan.files) => p \in Unchecked
        /\ \A k \in 1..Len(scan.files) :
             scan.files[k] \notin Unchecked => PathExists(ws, scan.files[k])

\* a scan of a manifest whose identity file, bundled skill and mcp config
\* template are all missing has returned with the three warnings
C24_Witness ==
    /\ Scanned
    /\ \A rule \in CheckedRules : Len(MissingOf(rule)) >= 1
    /\ Len(scan.warnings) = 3
    /\ Str_MISSING \notin SeqToSet(scan.files)
    /\ Len(scan.files) >= 2

-----------------------------------------------------------------------------
(* C25 *)

\* the error fetchGitHubRepo is to report for each way the clone can fail
ExpectedCloneError(outcome, gh) ==
    CASE outcome = "repo-missing" ->
            Msg("Repository not found: https://github.com/", gh.owner \o <<"/">> \o gh.repo)
      [] outcome = "version-missing" ->
            Msg("Version not found: %s. Check available tags with: gh release list -R",
                IF Has(gh, "version") THEN gh.version ELSE <<>>)
      [] OTHER -> Msg("Failed to clone: ", Str_err)

\* C25: fetchGitHubRepo classifies every clone failure into exactly one of
\* three errors: 'Repository not found' for a missing repository, 'Version not
\* found' for a missing tag or branch, 'Failed to clone' for anything else; a
\* missing version is never reported as repository-not-found.
C25_CloneFailureClassified ==
    (IsRemoteCall /\ Returned /\ call.oracle.clone # "ok") =>
        /\ ~result.success
        /\ result.errors =
             <<ExpectedCloneError(call.oracle.clone, parseGitHubSource(call.source))>>

-----------------------------------------------------------------------------
(* generateManifest *)

MaxDirLen == 3

\* the characters directory names are made of
DirChars == {"A", "b", "1", "-", " ", "_"}

RECURSIVE StringsUpTo(_)
StringsUpTo(n) ==
    IF n = 0 THEN {<<>>}
    ELSE LET shorter == StringsUpTo(n - 1)
         IN  shorter \cup {Append(s, c) : s \in {t \in shorter : Len(t) = n - 1}, c \in DirChars}

\* base names of workspace directories
DirNames == StringsUpTo(MaxDirLen) \ {<<>>}

Str_aiAgent == <<"A", "I", " ", "a", "g", "e", "n", "t", ":", " ">>
Str_TOOLS   == <<"T", "O", "O", "L", "S", ".", "m", "d">>
Str_AGENTS  == <<"A", "G", "E", "N", "T", "S", ".", "m", "d">>
Str_HEARTBEAT == <<"H", "E", "A", "R", "T", "B", "E", "A", "T", ".", "m", "d">>
Str_avatars == <<"a", "v", "a", "t", "a", "r", "s">>
Str_skills  == <<"s", "k", "i", "l", "l", "s">>

\* .replace(/[^a-z0-9-]/g, '-'): each character outside the class, one by one
RECURSIVE ReplaceOthers(_, _)
ReplaceOthers(text, i) ==
    IF i > Len(text) THEN <<>>
    ELSE <<IF text[i] \in NameChars THEN text[i] ELSE "-">> \o ReplaceOthers(text, i + 1)

\* options.name || dirName.toLowerCase().replace(/[^a-z0-9-]/g, '-')
DefaultName(dirName, options) ==
    IF Truthy(options, "name") THEN options.name
    ELSE ReplaceOthers(LowerCase(dirName), 1)

\* the context files generateManifest looks for, with the key of each
DetectedContext ==
    <<[file |-> Str_IDENTITY,  key |-> "identity"],
      [file |-> Str_TOOLS,     key |-> "tools"],
      [file |-> Str_AGENTS,    key |-> "agents"],
      [file |-> Str_HEARTBEAT, key |-> "heartbeat"]>>

DetectContext(w) ==
    LET found == {i \in 1..Len(DetectedContext) : PathExists(w, DetectedContext[i].file)}
        keys  == {DetectedContext[i].key : i \in found}
    IN  [k \in keys \cup {"soul"} |->
            IF k = "soul" THEN Str_SOUL
            ELSE DetectedContext[CHOOSE i \in found : DetectedContext[i].key = k].file]

\* the names of the directories directly inside skills/, in readdir order
SkillDirs(w) ==
    LET Inside(p) == /\ p \in DOMAIN w.files
                     /\ Len(Split(p, "/")) >= 3
                     /\ Split(p, "/")[1] = Str_skills
        paths     == SelectSeq(WorkspaceOrder, Inside)
    IN  Dedupe([i \in 1..Len(paths) |-> Split(paths[i], "/")[2]])

generateManifest(dirName, w, options) ==
    [name        |-> DefaultName(dirName, options),
     version     |-> Str_1_0_0,
     description |-> IF Truthy(options, "description") THEN options.description
                     ELSE Str_aiAgent \o dirName,
     engine      |-> [clawdbot |-> <<">", "=", "1", ".", "0", ".", "0">>],
     context     |-> DetectContext(w)]
    @@ (IF PathExists(w, Str_avatars) THEN [assets |-> <<Str_avatarDir>>]
        ELSE [version |-> Str_1_0_0])
    @@ (IF PathExists(w, Str_skills) /\ SkillDirs(w) # <<>>
        THEN [skills |-> [bundled |->
                [i \in 1..Len(SkillDirs(w)) |->
                    [path |-> Str_skills \o <<"/">> \o SkillDirs(w)[i]]]]]
        ELSE [version |-> Str_1_0_0])

\* the options argument: nothing, an empty name, a name, a description
GenerateOptions ==
    {n @@ d : n \in Optional("name", {<<>>, Str_a}),
              d \in Optional("description", {Str_desc})}

\* workspaces to generate a manifest for: an empty directory, and one that
\* holds context files, avatars and a skill
GenerateWorkspaces == {Workspace(NoFiles), Workspace(BaseFiles)}

InitGenerate ==
    /\ xcall \in {[dir |-> dir, options |-> options] :
                    dir \in DirNames, options \in GenerateOptions}
    /\ ws \in GenerateWorkspaces
    /\ xres = None
    /\ procs = None
    /\ fs = CleanFs
    /\ vm = ManifestB
    /\ vres = None
    /\ pre = None
    /\ call = None
    /\ result = None
    /\ ncalls = 0
    /\ scan = None
    /\ leaks = None

\* generateManifest applied to one workspace directory and one options value
GenerateManifest ==
    /\ xres = None
    /\ xres' = [manifest |-> generateManifest(xcall.dir, ws, xcall.options)]
    /\ UNCHANGED <<xcall, ws, procs, fs, vm, vres, pre, call, result, ncalls, scan, leaks>>

NextGenerate == GenerateManifest

SpecGenerate == InitGenerate /\ [][NextGenerate]_vars

-----------------------------------------------------------------------------
(* C26 *)

Generated == xres # None /\ "manifest" \in DOMAIN xres

\* lower-case letters and digits
Alphanumeric == LowerLetters \cup Digits

\* text with every maximal run of non-alphanumeric characters replaced by one
\* hyphen
RECURSIVE CollapseRuns(_, _)
CollapseRuns(text, i) ==
    IF i > Len(text) THEN <<>>
    ELSE IF text[i] \in Alphanumeric THEN <<text[i]>> \o CollapseRuns(text, i + 1)
    ELSE IF i > 1 /\ text[i - 1] \notin Alphanumeric THEN CollapseRuns(text, i + 1)
    ELSE <<"-">> \o CollapseRuns(text, i + 1)

\* C26: with no name override, generateManifest's name is the workspace
\* directory's base name lowercased with every maximal run of non-alphanumeric
\* characters replaced by a single hyphen.
C26_DefaultNameCollapsesRuns ==
    (Generated /\ ~Truthy(xcall.options, "name")) =>
        xres.manifest.name = CollapseRuns(LowerCase(xcall.dir), 1)

-----------------------------------------------------------------------------
(* C27 *)

\* the call imports an archive with one top-level entry whose manifest is
\* valid, its agent directory did not exist when the call began, and no copy
\* fails
FreshWellFormedArchiveCall ==
    /\ IsArchiveCall
    /\ NamedManifestValid
    /\ ~pre.agents[NamedManifest.name].exists
    /\ call.oracle.copyFailAt = 0

\* C27: the outcome of an archive import does not depend on earlier import
\* attempts: after any sequence of earlier imports into the same target root,
\* failed ones included, importing a well-formed single-root archive whose
\* agent directory does not yet exist succeeds.
C27_ArchiveImportIgnoresHistory ==
    FreshWellFormedArchiveCall =>
        /\ Succeeded
        /\ result.agentPath = AgentDir(NamedManifest.name)
        /\ fs.agents[NamedManifest.name].exists

-----------------------------------------------------------------------------
(* The local-only importAgent (the importer without remote sources) *)

\* importAgent of the local-only importer: resolve the source, load and
\* validate the manifest, check the collision, copy, template, env, skills,
\* cleanup
importAgentLocalOnly(source, f, options, env, oracle) ==
    LET archive   == IsArchiveName(source)
        extracted == archive /\ At(f, source).kind = "archive"
        staged    == IF extracted THEN ExtractInto(f.temp, At(f, source).roots) ELSE f.temp
        entries   == DOMAIN staged.roots
        f1        == IF ~archive THEN f
                     ELSE IF extracted THEN [f EXCEPT !.temp = staged]
                     ELSE [f EXCEPT !.temp = AbsentDir]
        tree      == IF archive
                     THEN (IF extracted /\ Cardinality(entries) = 1
                           THEN staged.roots[CHOOSE r \in entries : TRUE] ELSE EmptyTree)
                     ELSE At(f, source).tree
        manifest  == loadManifest(tree)
        validation == validateManifest(manifest.doc)
        name      == manifest.doc.name
        copy      == CopyFiles(tree, f1.agents[name].files, oracle.copyFailAt)
        WithAgent(files) == [f1 EXCEPT !.agents[name] = [exists |-> TRUE, files |-> files]]
    IN  IF archive /\ ~extracted
        THEN [fs |-> f1, result |-> Failure(<<Msg("Failed to extract archive: ", Str_err)>>)]
        ELSE IF archive /\ Cardinality(entries) # 1
        THEN [fs |-> f1,
              result |-> Failure(<<Msg("Invalid archive structure - expected single root directory", <<>>)>>)]
        ELSE IF ~archive /\ At(f, source).kind = "none"
        THEN [fs |-> f1, result |-> Failure(<<Msg("Source not found: ", source)>>)]
        ELSE IF manifest.throws
        THEN [fs |-> f1, result |-> Thrown]
        ELSE IF manifest.null
        THEN [fs |-> f1, result |-> Failure(<<Msg("No porter.yaml found in package", <<>>)>>)]
        ELSE IF ~validation.valid
        THEN [fs |-> f1, result |-> Failure(validation.errors)]
        ELSE IF f1.agents[name].exists /\ ~options.force
        THEN [fs |-> f1,
              result |-> Failure(<<Msg("Agent directory already exists: %s. Use --force to overwrite.",
                                       AgentDir(name))>>)]
        ELSE IF copy.threw
        THEN [fs |-> WithAgent(copy.files), result |-> Thrown]
        ELSE [fs     |-> CleanupTemp(WithAgent(ApplyTemplate(copy.files))),
              result |-> Success(AgentDir(name), MissingEnv(manifest.doc, options, env),
                                 InstalledSkills(manifest.doc, options))]

-----------------------------------------------------------------------------
(* C28 *)

\* the call's source is no well-formed remote locator
IsLocalCall == Called /\ parseGitHubSource(call.source).null

\* what the local-only importAgent does with the arguments and the filesystem
\* of the call
LocalOnlyOutcome ==
    importAgentLocalOnly(call.source, pre, call.options, call.env, call.oracle)

\* C28: for every source string that is not a well-formed remote locator,
\* every options value and every filesystem state, the GitHub-aware importAgent
\* and the local-only importAgent return the same result and leave the
\* filesystem in the same state.
C28_LocalImportersAgree ==
    IsLocalCall => (LocalOnlyOutcome.result = result /\ LocalOnlyOutcome.fs = fs)

\* both importers have installed an archive's package on a target root that
\* still held the staging directory of an earlier call
C28_Witness ==
    /\ IsLocalCall
    /\ IsArchiveCall
    /\ Succeeded
    /\ pre.temp.exists
    /\ LocalOnlyOutcome.result.success

-----------------------------------------------------------------------------
(* C29 *)

\* the call was made with options.force
ForcedCall == Called /\ call.options.force

\* every file the agent directory n held before the call is still there, and
\* unchanged unless the copied package has a file of that path
KeptFiles(n) ==
    /\ fs.agents[n].exists
    /\ \A p \in DOMAIN pre.agents[n].files :
         /\ p \in DOMAIN fs.agents[n].files
         /\ p \notin DOMAIN CopiedTree =>
              fs.agents[n].files[p] = pre.agents[n].files[p]

\* C29: a forced import into an existing <target>/<manifest.name> overwrites
\* the files the source provides and deletes nothing: every file that was in
\* the directory before and has no counterpart in the source is still there,
\* unchanged, after the import.
C29_ForcedImportDeletesNothing ==
    ForcedCall => \A n \in AgentNames : pre.agents[n].exists => KeptFiles(n)

\* a forced import has succeeded into a directory that held a file the package
\* lacks and a file the package replaced
C29_Witness ==
    /\ ForcedCall
    /\ Succeeded
    /\ pre.agents[InstalledName].exists
    /\ \E p \in DOMAIN pre.agents[InstalledName].files : p \notin DOMAIN CopiedTree
    /\ \E p \in DOMAIN pre.agents[InstalledName].files \cap DOMAIN CopiedTree :
          /\ fs.agents[InstalledName].files[p] = CopiedTree[p]
          /\ fs.agents[InstalledName].files[p] # pre.agents[InstalledName].files[p]

-----------------------------------------------------------------------------
(* C30 *)

\* C30: for every manifest that passes validateManifest, every path in
\* scanWorkspace's files is workspace-relative: none begins with '/' and none
\* contains a '..' segment, whichever rule contributed it.
C30_ScannedPathsStayInWorkspace ==
    (Scanned /\ validateManifest(vm).valid) =>
        \A k \in 1..Len(scan.files) : ~Offending(scan.files[k])

=============================================================================
